---- MODULE Spec2Model ----
(***************************************************************************)
(* Booking orchestrator (book_travel) of the travel-booking assistant,     *)
(* with the destination resolver, the hotel catalog and the process-wide   *)
(* caches it uses.  Python strings are sequences of one-character strings, *)
(* Python values are tagged records (none / str / num / list / dict).      *)
(***************************************************************************)
EXTENDS Integers, Sequences, FiniteSets, TLC

\* ------------------------------------------------------------------ bounds
MaxOffers == 2
MaxMeals == 2
MaxIdLen == 9
MaxListLen == 3
MaxCaseLen == 4

\* ------------------------------------------------------- Python values
None == [t |-> "none"]
S(chars) == [t |-> "str", v |-> chars]
N(n) == [t |-> "num", v |-> n]
L(seq) == [t |-> "list", v |-> seq]
D(rec) == [t |-> "dict", v |-> rec]
EmptyDict == [t |-> "dict", v |-> <<>>]

IsNone(x) == x.t = "none"
IsStr(x) == x.t = "str"
IsList(x) == x.t = "list"
IsDict(x) == x.t = "dict"

\* bool(x)
Truthy(x) ==
  CASE x.t = "none" -> FALSE
    [] x.t = "str"  -> Len(x.v) > 0
    [] x.t = "num"  -> x.v # 0
    [] x.t = "list" -> Len(x.v) > 0
    [] x.t = "dict" -> DOMAIN x.v # {}

\* a or b
Or(a, b) == IF Truthy(a) THEN a ELSE b

\* d.get(k) and d.get(k, default) on a dict value
Get(d, k) == IF k \in DOMAIN d.v THEN d.v[k] ELSE None
GetDef(d, k, default) == IF k \in DOMAIN d.v THEN d.v[k] ELSE default

\* --------------------------------------------------------------- strings
Lowers == <<"a","b","c","d","e","f","g","h","i","j","k","l","m",
            "n","o","p","q","r","s","t","u","v","w","x","y","z">>
Uppers == <<"A","B","C","D","E","F","G","H","I","J","K","L","M",
            "N","O","P","Q","R","S","T","U","V","W","X","Y","Z">>
DigitChars == <<"0","1","2","3","4","5","6","7","8","9">>
RUPEE == "Rs"
STAR == "*"

Range(s) == {s[i] : i \in DOMAIN s}
IsUpper(c) == \E i \in 1..26 : Uppers[i] = c
IsLower(c) == \E i \in 1..26 : Lowers[i] = c
IsLetter(c) == IsUpper(c) \/ IsLower(c)
IsDigit(c) == \E i \in 1..10 : DigitChars[i] = c
IsSpace(c) == c \in {" ", "\t", "\n"}
LowerOf(c) == IF IsUpper(c) THEN Lowers[CHOOSE i \in 1..26 : Uppers[i] = c] ELSE c
UpperOf(c) == IF IsLower(c) THEN Uppers[CHOOSE i \in 1..26 : Lowers[i] = c] ELSE c

\* str.lower(), str.upper()
Lower(s) == [i \in 1..Len(s) |-> LowerOf(s[i])]
Upper(s) == [i \in 1..Len(s) |-> UpperOf(s[i])]

\* str.title(): a letter is upper-cased after a non-letter, lower-cased after a letter
Title(s) ==
  [i \in 1..Len(s) |->
     IF i > 1 /\ IsLetter(s[i-1]) THEN LowerOf(s[i]) ELSE UpperOf(s[i])]

\* str.strip()
Strip(s) ==
  IF \A i \in 1..Len(s) : IsSpace(s[i]) THEN <<>>
  ELSE LET a == CHOOSE i \in 1..Len(s) :
                  ~IsSpace(s[i]) /\ \A j \in 1..(i-1) : IsSpace(s[j])
           b == CHOOSE i \in 1..Len(s) :
                  ~IsSpace(s[i]) /\ \A j \in (i+1)..Len(s) : IsSpace(s[j])
       IN SubSeq(s, a, b)

\* needle in hay
IsSubstr(needle, hay) ==
  \E i \in 0..(Len(hay) - Len(needle)) :
    \A j \in 1..Len(needle) : hay[i + j] = needle[j]

\* str(n) for a natural number
RECURSIVE DigitsOf(_)
DigitsOf(n) ==
  IF n < 10 THEN <<DigitChars[n + 1]>>
  ELSE Append(DigitsOf(n \div 10), DigitChars[(n % 10) + 1])

DigitVal(c) == (CHOOSE i \in 1..10 : DigitChars[i] = c) - 1
RECURSIVE NumOf(_)
NumOf(s) == IF Len(s) = 0 THEN 0
            ELSE 10 * NumOf(SubSeq(s, 1, Len(s) - 1)) + DigitVal(s[Len(s)])

\* float(s) succeeds on a (whitespace-padded) run of digits
IsNumeric(s) == LET u == Strip(s) IN Len(u) > 0 /\ \A i \in 1..Len(u) : IsDigit(u[i])
FloatOf(s) == NumOf(Strip(s))

\* s.replace(c, "")
RECURSIVE Remove(_, _)
Remove(s, c) ==
  IF Len(s) = 0 THEN <<>>
  ELSE IF Head(s) = c THEN Remove(Tail(s), c)
       ELSE <<Head(s)>> \o Remove(Tail(s), c)

\* s.split(sep): the list of segments between occurrences of sep
RECURSIVE Split(_, _)
Split(s, sep) ==
  IF \A i \in 1..Len(s) : s[i] # sep THEN <<s>>
  ELSE LET p == CHOOSE i \in 1..Len(s) : s[i] = sep /\ \A j \in 1..(i-1) : s[j] # sep
       IN <<SubSeq(s, 1, p - 1)>> \o Split(SubSeq(s, p + 1, Len(s)), sep)

\* str(x) as used by an f-string
Str(x) ==
  CASE x.t = "none" -> <<"N","o","n","e">>
    [] x.t = "str"  -> x.v
    [] x.t = "num"  -> DigitsOf(x.v)
    [] OTHER        -> <<"?">>

CITY_TO_IATA ==
  <<
    [city |-> <<"K","o","d","a","i","k","a","n","a","l">>, code |-> <<"M","A","A">>],
    [city |-> <<"K","u","l","l","u">>, code |-> <<"K","U","U">>],
    [city |-> <<"K","u","m","a","r","a","k","o","m">>, code |-> <<"C","O","K">>],
    [city |-> <<"K","u","t","a">>, code |-> <<"D","P","S">>],
    [city |-> <<"M","a","n","a","l","i">>, code |-> <<"K","U","U">>],
    [city |-> <<"M","e","g","h","a","l","a","y","a">>, code |-> <<"S","H","L">>],
    [city |-> <<"M","u","n","n","a","r">>, code |-> <<"C","O","K">>],
    [city |-> <<"M","y","s","o","r","e">>, code |-> <<"M","Y","Q">>],
    [city |-> <<"N","e","i","l"," ","I","s","l","a","n","d">>, code |-> <<"I","X","Z">>],
    [city |-> <<"O","o","t","y">>, code |-> <<"C","J","B">>],
    [city |-> <<"P","a","h","a","l","g","a","m">>, code |-> <<"S","X","R">>],
    [city |-> <<"P","o","r","t"," ","B","l","a","i","r">>, code |-> <<"I","X","Z">>],
    [city |-> <<"S","e","m","i","n","y","a","k">>, code |-> <<"D","P","S">>],
    [city |-> <<"S","h","i","l","l","o","n","g">>, code |-> <<"S","H","L">>],
    [city |-> <<"S","h","i","m","l","a">>, code |-> <<"S","L","V">>],
    [city |-> <<"S","i","k","k","i","m">>, code |-> <<"P","Y","G">>],
    [city |-> <<"S","i","l","i","g","u","r","i">>, code |-> <<"I","X","B">>],
    [city |-> <<"S","r","i","n","a","g","a","r">>, code |-> <<"S","X","R">>],
    [city |-> <<"U","b","u","d">>, code |-> <<"D","P","S">>],
    [city |-> <<"V","a","r","k","a","l","a">>, code |-> <<"T","R","V">>],
    [city |-> <<"A","g","r","a">>, code |-> <<"A","G","R">>],
    [city |-> <<"A","l","l","e","p","p","e","y">>, code |-> <<"C","O","K">>],
    [city |-> <<"A","n","d","a","m","a","n">>, code |-> <<"I","X","Z">>],
    [city |-> <<"B","a","l","i">>, code |-> <<"D","P","S">>],
    [city |-> <<"C","h","a","n","d","i","g","a","r","h">>, code |-> <<"I","X","C">>],
    [city |-> <<"C","h","e","r","r","a","p","u","n","j","e","e">>, code |-> <<"S","H","L">>],
    [city |-> <<"C","o","i","m","b","a","t","o","r","e">>, code |-> <<"C","J","B">>],
    [city |-> <<"C","o","o","n","o","o","r">>, code |-> <<"C","J","B">>],
    [city |-> <<"C","o","o","r","g">>, code |-> <<"I","X","M">>],
    [city |-> <<"D","a","r","j","e","e","l","i","n","g">>, code |-> <<"I","X","B">>],
    [city |-> <<"D","e","l","h","i">>, code |-> <<"D","E","L">>],
    [city |-> <<"D","w","a","k","i">>, code |-> <<"S","H","L">>],
    [city |-> <<"G","a","n","g","t","o","k">>, code |-> <<"P","Y","G">>],
    [city |-> <<"G","o","a">>, code |-> <<"G","O","X">>],
    [city |-> <<"H","a","v","e","l","o","c","k">>, code |-> <<"I","X","Z">>],
    [city |-> <<"H","i","m","a","c","h","a","l">>, code |-> <<"K","U","U">>],
    [city |-> <<"K","a","s","h","m","i","r">>, code |-> <<"S","X","R">>],
    [city |-> <<"K","a","s","o","l">>, code |-> <<"K","U","U">>],
    [city |-> <<"K","a","z","i","r","a","n","g","a">>, code |-> <<"J","R","H">>],
    [city |-> <<"K","o","c","h","i">>, code |-> <<"C","O","K">>],
    [city |-> <<"W","a","y","a","n","a","d">>, code |-> <<"C","C","J">>],
    [city |-> <<"K","e","r","a","l","a">>, code |-> <<"C","O","K">>],
    [city |-> <<"B","a","n","g","k","o","k">>, code |-> <<"B","K","K">>],
    [city |-> <<"S","i","n","g","a","p","o","r","e">>, code |-> <<"S","I","N">>]
  >>

\* city_to_iata(city_name)
\* the lookup without the title-casing
city_to_iata_as_typed(city_name) ==
  LET key == Strip(city_name)
  IN IF \E i \in 1..Len(CITY_TO_IATA) : CITY_TO_IATA[i].city = key
     THEN CITY_TO_IATA[CHOOSE i \in 1..Len(CITY_TO_IATA) : CITY_TO_IATA[i].city = key].code
     ELSE <<>>
\* city_to_iata(city_name)
city_to_iata(city_name) ==
  LET key == Title(Strip(city_name))
  IN IF \E i \in 1..Len(CITY_TO_IATA) : CITY_TO_IATA[i].city = key
     THEN CITY_TO_IATA[CHOOSE i \in 1..Len(CITY_TO_IATA) : CITY_TO_IATA[i].city = key].code
     ELSE <<>>


\* An operation either returns a value or raises: Ret(v) / Raise(e)
Ret(x) == [raised |-> FALSE, v |-> x]
Raise(e) == [raised |-> TRUE, v |-> e]

\* first index of CITY_TO_IATA (dict iteration order) whose city is a
\* case-insensitive substring of text; 0 when there is none
FirstCityIn(text) ==
  LET hits == {i \in 1..Len(CITY_TO_IATA) : IsSubstr(Lower(CITY_TO_IATA[i].city), Lower(text))}
  IN IF hits = {} THEN 0 ELSE CHOOSE i \in hits : \A j \in hits : i <= j

\* re.search(r'in ([A-Za-z ]+)', s): group(1) of the leftmost match
IsWordChar(c) == IsLetter(c) \/ c = " "
RegexInStarts(s) ==
  {i \in 1..(Len(s) - 3) :
     s[i] = "i" /\ s[i+1] = "n" /\ s[i+2] = " " /\ IsWordChar(s[i+3])}
RegexInGroup(s) ==
  LET i == CHOOSE a \in RegexInStarts(s) : \A b \in RegexInStarts(s) : a <= b
      e == CHOOSE b \in (i+3)..Len(s) :
             /\ \A k \in (i+3)..b : IsWordChar(s[k])
             /\ (b = Len(s) \/ ~IsWordChar(s[b+1]))
  IN SubSeq(s, i + 3, e)

\* extract_city_from_package_name(package_name, package)
extract_city_from_package_name(package_name, package) ==
  IF FirstCityIn(package_name) # 0
  THEN Ret(CITY_TO_IATA[FirstCityIn(package_name)].city)
  ELSE LET dest_names == GetDef(package, "destinationName", S(<<>>))
       IN IF ~IsStr(dest_names) THEN Raise("AttributeError")
          ELSE IF FirstCityIn(dest_names.v) # 0
          THEN Ret(CITY_TO_IATA[FirstCityIn(dest_names.v)].city)
          ELSE IF RegexInStarts(package_name) # {}
          THEN Ret(Strip(RegexInGroup(package_name)))
          ELSE Ret(<<>>)


\* ------------------------------------------------ inputs and environment
\* package ids a caller may pass; the provider's package list holds KnownId
KnownId == <<"p","1">>
UnknownId == <<"u","9">>
PlanIds == {KnownId, UnknownId}

NameCity == <<"O","o","t","y"," ","t","r","i","p">>
NameIn == <<"S","t","a","y"," ","i","n"," ","X","y">>
NamePlain == <<"T","o","u","r">>
PackageNames == {NameCity, NameIn, NamePlain}

LongId == <<"d","e","s","t","1","2","3","4">>
OtherId == <<"d","e","s","t","9","9","9","9">>
ShortId == <<"d","7">>
CodeCOK == <<"C","O","K">>
CityGoa == <<"G","o","a">>
CityMunnar == <<"m","u","n","n","a","r">>
CityCochin == <<"C","o","c","h","i","n">>

\* shapes of the package's destination reference
DestinationShapes ==
  { L(<< D([destinationId |-> S(LongId)]) >>),
    L(<< D([destinationId |-> S(ShortId)]) >>),
    L(<< D([label |-> S(CityGoa)]) >>),
    L(<< S(LongId) >>),
    L(<< D([destinationId |-> S(ShortId)]), D([destinationId |-> S(OtherId)]) >>),
    D([destinationId |-> S(LongId)]),
    S(CodeCOK),
    S(LongId),
    L(<<>>),
    None }

DestinationNames == {None, S(CityGoa), S(NamePlain)}

\* tripxplo_get_destination_by_id: what the provider answers
DestinationResponses ==
  { [ok |-> FALSE, result |-> None],
    [ok |-> TRUE, result |-> D([name |-> S(CityMunnar)])],
    [ok |-> TRUE, result |-> D([name |-> S(CityCochin)])],
    [ok |-> TRUE, result |-> D([name |-> None, city |-> S(CityGoa)])],
    [ok |-> TRUE, result |-> EmptyDict],
    [ok |-> TRUE, result |-> None] }

LoginOutcomes == {"ok", "http_error", "no_token"}
NoToken == "none"
Token == "tok"


\* ------------------------------------------------------- flight branch
\* EUR_TO_INR = 99.7, kept as tenths
EUR_TO_INR_X10 == 997
Origin == <<"M","A","A">>

\* a key a dict lacks (d[k] raises KeyError)
Missing == [t |-> "missing"]

\* float(x) for a JSON value: defined on numbers and numeric strings
CanFloat(x) == (x.t = "num") \/ (x.t = "str" /\ IsNumeric(x.v))
ToFloat(x) == IF x.t = "num" THEN x.v ELSE FloatOf(x.v)

TwoDigits(n) == <<DigitChars[(n \div 10) + 1], DigitChars[(n % 10) + 1]>>
\* f"{inr:.2f} INR" for inr = eur * EUR_TO_INR
FormatInr(eur) ==
  LET paise == eur * EUR_TO_INR_X10 * 10
  IN DigitsOf(paise \div 100) \o <<".">> \o TwoDigits(paise % 100) \o <<" ","I","N","R">>
PlaceholderInr == <<"-"," ","I","N","R">>

\* sort keys are floats; float("inf") is [inf |-> TRUE]
Finite(n) == [inf |-> FALSE, v |-> n]
Infinite == [inf |-> TRUE, v |-> 0]
KeyLE(a, b) == b.inf \/ (~a.inf /\ a.v <= b.v)

\* stable sort (list.sort / sorted) of a sequence of [key, item] pairs
RECURSIVE InsertByKey(_, _)
InsertByKey(sorted, x) ==
  IF Len(sorted) = 0 THEN <<x>>
  ELSE IF KeyLE(sorted[Len(sorted)].key, x.key) THEN Append(sorted, x)
       ELSE Append(InsertByKey(SubSeq(sorted, 1, Len(sorted) - 1), x), sorted[Len(sorted)])
RECURSIVE SortPairs(_)
SortPairs(pairs) ==
  IF Len(pairs) = 0 THEN <<>>
  ELSE InsertByKey(SortPairs(SubSeq(pairs, 1, Len(pairs) - 1)), pairs[Len(pairs)])
\* the items left in the order given
UnsortedItems(pairs) == [i \in 1..Len(pairs) |-> pairs[i].item]
SortedItems(pairs) == LET r == SortPairs(pairs) IN [i \in 1..Len(r) |-> r[i].item]

\* key of the sort at line 61: float(o["price"]["total"])
OfferKeyRaises(o) == ~CanFloat(o.total)
OfferKey(o) == Finite(ToFloat(o.total))

\* lines 64-73: the table row of one offer
FlightRowRaises(o) == o.total.t = "missing" \/ o.itin = "missing"
Cell(text) == <<" ">> \o text \o <<" ","|">>
FlightRow(o, to) ==
  <<"|">> \o Cell(Origin) \o Cell(to)
    \o Cell(IF o.itin = "full" THEN o.dep ELSE <<>>)
    \o Cell(IF o.itin = "full" THEN o.arr ELSE <<>>)
    \o Cell(IF o.itin = "full" THEN o.carrier ELSE <<>>)
    \o Cell(IF CanFloat(o.total) THEN FormatInr(ToFloat(o.total)) ELSE PlaceholderInr)

InfoTable(rows) == [kind |-> "table", rows |-> rows, text |-> "table"]
InfoLine(text) == [kind |-> "line", rows |-> <<>>, text |-> text]
NoInfo == [kind |-> "unset", rows |-> <<>>, text |-> ""]

\* lines 58-83: the flight section computed from the flight-offer response
FlightSectionOf(resp, to) ==
  IF resp.status # 200 THEN InfoLine("Flight search error: response text")
  ELSE IF resp.data.t # "list" THEN InfoLine("Flight search error: exception")
  ELSE LET offers == resp.data.v
       IN IF \E i \in 1..Len(offers) : OfferKeyRaises(offers[i])
          THEN InfoLine("Flight search error: exception")
          ELSE LET offers_sorted ==
                     SortedItems([i \in 1..Len(offers) |-> [key |-> OfferKey(offers[i]), item |-> offers[i]]])
               IN IF \E i \in 1..Len(offers) : FlightRowRaises(offers[i])
                  THEN InfoLine("Flight search error: exception")
                  ELSE IF Len(offers) > 0
                  THEN InfoTable([i \in 1..Len(offers) |-> FlightRow(offers_sorted[i], to)])
                  ELSE InfoLine("No flights found.")

\* the flight branch without the else of line 84: flight_info stays ""
FlightBranchNoElse(creds, fenv, to) ==
  IF ~creds THEN [info |-> NoInfo, calls |-> <<>>]
  ELSE IF fenv.token # "ok"
  THEN [info |-> InfoLine("Flight search error: exception"), calls |-> <<"flight_token">>]
  ELSE IF fenv.resp.status = 0
  THEN [info |-> InfoLine("Flight search error: exception"),
        calls |-> <<"flight_token", "flight_offers">>]
  ELSE [info |-> FlightSectionOf(fenv.resp, to), calls |-> <<"flight_token", "flight_offers">>]

\* lines 44-87: the whole flight branch; fenv is what the flight provider does
FlightBranchOf(creds, fenv, to) ==
  IF ~creds THEN [info |-> InfoLine("No flight API credentials configured."), calls |-> <<>>]
  ELSE IF fenv.token # "ok"
  THEN [info |-> InfoLine("Flight search error: exception"), calls |-> <<"flight_token">>]
  ELSE IF fenv.resp.status = 0
  THEN [info |-> InfoLine("Flight search error: exception"),
        calls |-> <<"flight_token", "flight_offers">>]
  ELSE [info |-> FlightSectionOf(fenv.resp, to), calls |-> <<"flight_token", "flight_offers">>]

\* offers the flight provider may return
Carriers == {<<"A","I">>, <<"6","E">>}
Offer(total, itin, carrier) ==
  [total |-> total, itin |-> itin, carrier |-> carrier,
   dep |-> <<"0","9","h">>, arr |-> <<"1","1","h">>]
OfferKinds ==
  { Offer(S(<<"2","0","0">>), "full", <<"A","I">>),
    Offer(S(<<"1","5","0">>), "full", <<"6","E">>),
    Offer(S(<<"1","5","0">>), "empty", <<"A","I">>),
    Offer(S(<<"a","b","c">>), "full", <<"A","I">>),
    Offer(Missing, "full", <<"A","I">>),
    Offer(N(90), "missing", <<"A","I">>) }

SeqsUpTo(set, n) == UNION {[1..k -> set] : k \in 0..n}

\* status 0 stands for a transport exception raised by requests.get
FlightResponses ==
  {[status |-> 0, data |-> None], [status |-> 500, data |-> None],
   [status |-> 200, data |-> None]}
  \cup {[status |-> 200, data |-> L(offers)] : offers \in SeqsUpTo(OfferKinds, MaxOffers)}
FlightEnvs ==
  {[token |-> "fail", resp |-> [status |-> 0, data |-> None]]}
  \cup {[token |-> "ok", resp |-> r] : r \in FlightResponses}


\* ----------------------------------------------------------------- dates
\* a calendar date is [y, m, d]
IsLeap(y) == (y % 4 = 0 /\ y % 100 # 0) \/ y % 400 = 0
DaysIn(y, m) ==
  IF m = 2 THEN (IF IsLeap(y) THEN 29 ELSE 28)
  ELSE IF m \in {4, 6, 9, 11} THEN 30 ELSE 31
AllDigits(s) == Len(s) > 0 /\ \A i \in 1..Len(s) : IsDigit(s[i])

\* datetime.strptime(date, "%Y-%m-%d").date(): four digits of year, one or
\* two of month and of day; ValueError when the text does not match or
\* names no day of the calendar
strptime(date) ==
  LET parts == Split(date, "-")
  IN IF Len(parts) # 3 THEN Raise("ValueError")
     ELSE IF ~(AllDigits(parts[1]) /\ Len(parts[1]) = 4
               /\ AllDigits(parts[2]) /\ Len(parts[2]) <= 2
               /\ AllDigits(parts[3]) /\ Len(parts[3]) <= 2)
     THEN Raise("ValueError")
     ELSE LET y == NumOf(parts[1])
              m == NumOf(parts[2])
              d == NumOf(parts[3])
          IN IF y >= 1 /\ m \in 1..12 /\ d >= 1 /\ d <= DaysIn(y, m)
             THEN Ret([y |-> y, m |-> m, d |-> d])
             ELSE Raise("ValueError")

\* date + timedelta(days=n)
NextDay(x) ==
  IF x.d < DaysIn(x.y, x.m) THEN [x EXCEPT !.d = x.d + 1]
  ELSE IF x.m < 12 THEN [y |-> x.y, m |-> x.m + 1, d |-> 1]
  ELSE [y |-> x.y + 1, m |-> 1, d |-> 1]
RECURSIVE AddDays(_, _)
AddDays(x, n) == IF n = 0 THEN x ELSE AddDays(NextDay(x), n - 1)

\* date.isoformat()
isoformat(x) ==
  TwoDigits(x.y \div 100) \o TwoDigits(x.y % 100) \o <<"-">> \o TwoDigits(x.m)
    \o <<"-">> \o TwoDigits(x.d)

\* the departure date falling back to the clock reading itself
DepDateToday(date, now) ==
  IF Len(date) = 0 THEN AddDays(now, 14)
  ELSE IF strptime(date).raised THEN now
  ELSE strptime(date).v
\* lines 13-19: the departure date of the request
DepDate(date, now) ==
  IF Len(date) = 0 THEN AddDays(now, 14)
  ELSE IF strptime(date).raised THEN AddDays(now, 14)
  ELSE strptime(date).v
\* line 20
RetDate(dep_date) == AddDays(dep_date, 7)

\* dates callers pass and what the clock reads
DateInputs ==
  { <<>>,
    <<"2","0","2","5","-","0","9","-","0","1">>,
    <<"2","0","2","5","-","1","2","-","2","8">>,
    <<"2","0","2","4","-","0","2","-","2","5">>,
    <<"2","0","2","5","-","0","2","-","3","0">>,
    <<"2","0","2","5","-","9","-","1">>,
    <<"0","1","-","0","9","-","2","0","2","5">>,
    <<"2","0","2","5","-","0","9","-","0","1","x">> }
NowDefault == [y |-> 2025, m |-> 6, d |-> 10]
NowInputs == {NowDefault, [y |-> 2025, m |-> 12, d |-> 20], [y |-> 2024, m |-> 2, d |-> 20]}

\* -------------------------------------------------------- hotel catalog
\* a CSV column whose text ast.literal_eval cannot parse
Unparsable == [t |-> "unparsable"]

\* for y in x: the items, or TypeError when x is not iterable
ItemsOf(x) ==
  CASE x.t = "list" -> Ret(x.v)
    [] x.t = "str"  -> Ret([i \in 1..Len(x.v) |-> S(<<x.v[i]>>)])
    [] x.t = "dict" -> Ret([i \in 1..Cardinality(DOMAIN x.v) |-> S(<<"k">>)])
    [] OTHER        -> Raise("TypeError")

\* hotel_mapper.py lines 82-90: one meal-plan entry of the catalog
MapperMeal(meal) ==
  D([mealPlan |-> Get(meal, "mealPlan"), roomPrice |-> Get(meal, "roomPrice"),
     adultPrice |-> Get(meal, "adultPrice"), childPrice |-> Get(meal, "childPrice"),
     seasonType |-> Get(meal, "seasonType"),
     startDate |-> GetDef(meal, "startDate", L(<<>>)),
     endDate |-> GetDef(meal, "endDate", L(<<>>))])

\* hotel_mapper.py lines 70-94: one room entry; raises when the entry or
\* one of its meal plans is not a mapping
MapperRoomRaises(room) ==
  \/ ~IsDict(room)
  \/ ItemsOf(GetDef(room, "mealPlan", L(<<>>))).raised
  \/ LET meals == ItemsOf(GetDef(room, "mealPlan", L(<<>>))).v
     IN \E j \in 1..Len(meals) : ~IsDict(meals[j])
MapperRoom(room) ==
  LET meals == ItemsOf(GetDef(room, "mealPlan", L(<<>>))).v
  IN D([roomType |-> Get(room, "hotelRoomType"), maxAdult |-> Get(room, "maxAdult"),
        maxChild |-> Get(room, "maxChild"), maxInf |-> Get(room, "maxInf"),
        roomCapacity |-> Get(room, "roomCapacity"), isAc |-> Get(room, "isAc"),
        mealPlans |-> L([j \in 1..Len(meals) |-> MapperMeal(meals[j])])])

\* subsequence of the elements satisfying keep
RECURSIVE Filter(_, _)
Filter(seq, keep) ==
  IF Len(seq) = 0 THEN <<>>
  ELSE IF Head(seq) \in keep THEN <<Head(seq)>> \o Filter(Tail(seq), keep)
       ELSE Filter(Tail(seq), keep)

\* hotel_mapper.py lines 52-101: a row is skipped when it does not parse,
\* belongs to another destination, or keeps no room
RowSkipped(row, destination_id) ==
  \/ row.location = Unparsable
  \/ ~IsDict(row.location)
  \/ Get(row.location, "destinationId") # destination_id
  \/ row.hotelRoomDetails = Unparsable
  \/ ItemsOf(row.hotelRoomDetails).raised
  \/ LET rooms == ItemsOf(row.hotelRoomDetails).v
     IN \/ \E j \in 1..Len(rooms) : MapperRoomRaises(rooms[j])
        \/ \A j \in 1..Len(rooms) : ~Truthy(Get(MapperRoom(rooms[j]), "mealPlans"))
RowHotelAllRooms(row) ==
  LET rooms == ItemsOf(row.hotelRoomDetails).v
  IN D([hotelName |-> row.hotelName, hotelId |-> row.hotelId, review |-> row.review,
        viewPoint |-> row.viewPoint, location |-> row.location,
        rooms |-> L([j \in 1..Len(rooms) |-> MapperRoom(rooms[j])])])
RowHotel(row) ==
  LET rooms == ItemsOf(row.hotelRoomDetails).v
      mapped == [j \in 1..Len(rooms) |-> MapperRoom(rooms[j])]
      kept == {mapped[j] : j \in {k \in 1..Len(rooms) : Truthy(Get(mapped[k], "mealPlans"))}}
  IN D([hotelName |-> row.hotelName, hotelId |-> row.hotelId, review |-> row.review,
        viewPoint |-> row.viewPoint, location |-> row.location,
        rooms |-> L(Filter(mapped, kept))])

\* HotelMapper.get_hotels_by_destination over the loaded frame df
RECURSIVE get_hotels_by_destination(_, _)
get_hotels_by_destination(df, destination_id) ==
  IF Len(df) = 0 THEN <<>>
  ELSE IF RowSkipped(Head(df), destination_id)
       THEN get_hotels_by_destination(Tail(df), destination_id)
       ELSE <<RowHotel(Head(df))>> \o get_hotels_by_destination(Tail(df), destination_id)

\* HotelMapper._load_data: an unreadable file leaves an empty frame
LoadData(file) == IF file.readable THEN file.rows ELSE <<>>

\* lines 45-104: the whole method on a mapper whose frame is df; the loop
\* catches per row, so nothing escapes
HotelMapper_aborting(df, destination_id) ==
  LET raises(row) ==
        \/ ~IsDict(row.location)
        \/ /\ Get(row.location, "destinationId") = destination_id
           /\ \/ row.hotelRoomDetails = Unparsable
              \/ ItemsOf(row.hotelRoomDetails).raised
              \/ \E j \in 1..Len(ItemsOf(row.hotelRoomDetails).v) :
                    MapperRoomRaises(ItemsOf(row.hotelRoomDetails).v[j])
  IN IF \E i \in 1..Len(df) : raises(df[i]) THEN Ret(<<>>)
     ELSE Ret(get_hotels_by_destination(df, destination_id))
HotelMapper_get_hotels_by_destination(df, destination_id) ==
  IF Len(df) = 0 THEN Ret(<<>>)
  ELSE Ret(get_hotels_by_destination(df, destination_id))

\* lines 142-143: a room the room_type filter drops
RoomDroppedUnlessNone(room, room_type) ==
  room_type # None /\ Get(room, "roomType") # room_type
RoomDropped(room, room_type) ==
  Truthy(room_type) /\ Get(room, "roomType") # room_type

\* lines 155-162: a meal plan the package_type or season_type filter drops
MealDroppedByPackage(meal, package_type, season_type) ==
  Truthy(package_type) /\ Get(meal, "mealPlan") # package_type
MealDropped(meal, package_type, season_type) ==
  \/ Truthy(package_type) /\ Get(meal, "mealPlan") # package_type
  \/ Truthy(season_type) /\ Get(meal, "seasonType") # season_type

\* lines 145-164: the filtered copy of a room
FilteredRoom(room, package_type, season_type) ==
  LET meals == Get(room, "mealPlans").v
      kept == {meals[j] : j \in {k \in 1..Len(meals) :
                                   ~MealDropped(meals[k], package_type, season_type)}}
  IN D([roomType |-> Get(room, "roomType"), maxAdult |-> Get(room, "maxAdult"),
        maxChild |-> Get(room, "maxChild"), maxInf |-> Get(room, "maxInf"),
        roomCapacity |-> Get(room, "roomCapacity"), isAc |-> Get(room, "isAc"),
        mealPlans |-> L(Filter(meals, kept))])

\* lines 131-167: the filtered copy of a hotel
FilteredHotel(hotel, package_type, room_type, season_type) ==
  LET rooms == Get(hotel, "rooms").v
      passing == Filter(rooms, {rooms[j] : j \in {k \in 1..Len(rooms) :
                                                    ~RoomDropped(rooms[k], room_type)}})
      copies == [j \in 1..Len(passing) |-> FilteredRoom(passing[j], package_type, season_type)]
      kept == {copies[j] : j \in {k \in 1..Len(copies) : Truthy(Get(copies[k], "mealPlans"))}}
  IN D([hotelName |-> Get(hotel, "hotelName"), hotelId |-> Get(hotel, "hotelId"),
        review |-> Get(hotel, "review"), viewPoint |-> Get(hotel, "viewPoint"),
        location |-> Get(hotel, "location"), rooms |-> L(Filter(copies, kept))])

\* HotelMapper.get_hotels_by_destination_and_package, lines 123-174
get_hotels_by_destination_and_package(df, destination_id, package_type, room_type, season_type) ==
  LET hotels == HotelMapper_get_hotels_by_destination(df, destination_id).v
      copies == [i \in 1..Len(hotels) |->
                   FilteredHotel(hotels[i], package_type, room_type, season_type)]
      kept == {copies[i] : i \in {k \in 1..Len(copies) : Truthy(Get(copies[k], "rooms"))}}
  IN IF Len(hotels) = 0 THEN Ret(<<>>) ELSE Ret(Filter(copies, kept))

\* lines 202-208: the meal plans of the hotels, in iteration order
AllMeals(hotels) ==
  LET RECURSIVE Cat(_)
      Cat(seqs) == IF Len(seqs) = 0 THEN <<>> ELSE Head(seqs) \o Cat(Tail(seqs))
  IN Cat([i \in 1..Len(hotels) |->
            Cat([j \in 1..Len(Get(hotels[i], "rooms").v) |->
                   Get(Get(hotels[i], "rooms").v[j], "mealPlans").v])])
AllRooms(hotels) ==
  UNION {Range(Get(hotels[i], "rooms").v) : i \in 1..Len(hotels)}

\* line 207: the prices that enter all_prices
Priced(meal) == Truthy(Get(meal, "roomPrice")) /\ Get(meal, "roomPrice").t = "num"

RECURSIVE Sum(_)
Sum(s) == IF Len(s) = 0 THEN 0 ELSE Head(s) + Sum(Tail(s))
Min(s) == CHOOSE x \in Range(s) : \A y \in Range(s) : x <= y
Max(s) == CHOOSE x \in Range(s) : \A y \in Range(s) : x >= y
\* sum(all_prices) / len(all_prices) as a fraction
Fraction(num, den) == [num |-> num, den |-> den]

\* lines 213-217
PriceRange(all_prices) ==
  IF Len(all_prices) = 0
  THEN [min |-> 0, max |-> 0, average |-> Fraction(0, 1)]
  ELSE [min |-> Min(all_prices), max |-> Max(all_prices),
        average |-> Fraction(Sum(all_prices), Len(all_prices))]

\* HotelMapper.get_hotel_summary_by_destination, lines 186-223; the two
\* listings built from sets are kept as sets, their order is not specified
get_hotel_summary_by_destination(df, destination_id) ==
  LET hotels == HotelMapper_get_hotels_by_destination(df, destination_id).v
      meals == AllMeals(hotels)
      priced == Filter(meals, {meals[k] : k \in {j \in 1..Len(meals) : Priced(meals[j])}})
      all_prices == [k \in 1..Len(priced) |-> Get(priced[k], "roomPrice").v]
  IN IF Len(hotels) = 0
     THEN Ret([destination_id |-> destination_id, total_hotels |-> 0,
               price_range |-> [min |-> 0, max |-> 0, average |-> Fraction(0, 1)],
               available_packages |-> {}, available_room_types |-> {}, hotels |-> <<>>])
     ELSE Ret([destination_id |-> destination_id, total_hotels |-> Len(hotels),
               price_range |-> PriceRange(all_prices),
               available_packages |-> {Get(meals[k], "mealPlan") : k \in 1..Len(meals)},
               available_room_types |-> {Get(r, "roomType") : r \in AllRooms(hotels)},
               hotels |-> [i \in 1..Len(hotels) |->
                             D([name |-> Get(hotels[i], "hotelName"),
                                id |-> Get(hotels[i], "hotelId"),
                                review |-> Get(hotels[i], "review")])]])

\* ------------------------------------------------- destination resolver
DestinationDataOf(package) ==
  Or(Get(package, "destination"),
     Or(Get(package, "to"), Or(Get(package, "city_code"), Get(package, "cityCode"))))

ValidId(x) == Truthy(x) /\ IsStr(x) /\ Len(x.v) >= 8

\* lines 217-223: the first list entry carrying a valid id
RECURSIVE FirstIdInList(_)
FirstIdInList(seq) ==
  IF Len(seq) = 0 THEN None
  ELSE LET dest_obj == Head(seq)
       IN IF IsDict(dest_obj) /\ ValidId(Get(dest_obj, "destinationId"))
          THEN Get(dest_obj, "destinationId")
          ELSE IF IsStr(dest_obj) /\ Len(dest_obj.v) >= 8 THEN dest_obj
          ELSE FirstIdInList(Tail(seq))

\* extract_destination_id_from_package(package)
extract_destination_id_from_package(package) ==
  LET destination_data == DestinationDataOf(package)
  IN IF ~Truthy(destination_data) THEN None
     ELSE IF IsList(destination_data) THEN FirstIdInList(destination_data.v)
     ELSE IF IsDict(destination_data)
     THEN IF ValidId(Get(destination_data, "destinationId"))
          THEN Get(destination_data, "destinationId") ELSE None
     ELSE IF IsStr(destination_data) /\ Len(destination_data.v) >= 8 THEN destination_data
     ELSE None

\* extract_hotels_from_package(package)
HotelKeys == <<"hotel", "hotels", "hotelOptions", "availableHotels">>
\* the embedded list taken from the last field holding one, not the first
extract_hotels_last_field(package) ==
  LET good == {i \in 1..Len(HotelKeys) :
                 Truthy(Get(package, HotelKeys[i])) /\ IsList(Get(package, HotelKeys[i]))}
  IN IF good = {} THEN L(<<>>)
     ELSE Get(package, HotelKeys[CHOOSE i \in good : \A j \in good : i >= j])
extract_hotels_from_package(package) ==
  LET good == {i \in 1..Len(HotelKeys) :
                 Truthy(Get(package, HotelKeys[i])) /\ IsList(Get(package, HotelKeys[i]))}
  IN IF good = {} THEN L(<<>>)
     ELSE Get(package, HotelKeys[CHOOSE i \in good : \A j \in good : i <= j])


\* --------------------------------------------------------- hotel branch
PriceNotAvailable == <<"Price not available">>

\* a price cell left blank when the price is missing
FormatPriceBlank(price) ==
  IF Truthy(price) THEN <<RUPEE>> \o Str(price) ELSE <<>>
\* lines 138-151: a price cell
FormatPrice(price) ==
  IF Truthy(price) THEN <<RUPEE>> \o Str(price) ELSE PriceNotAvailable

\* lines 154-156
DisplayName(hotel_name, room_type, review) ==
  Str(hotel_name) \o <<" ","(">> \o Str(room_type) \o <<")">>
    \o (IF Truthy(review) THEN <<" ", STAR>> \o Str(review) ELSE <<>>)

\* lines 131-158: the display row of one meal plan; meal.get raises on a
\* non-mapping, meal_plan.upper() raises on a non-string
MealRowRaises(meal) ==
  ~IsDict(meal) \/ ~IsStr(GetDef(meal, "mealPlan", S(<<>>)))
MealRow(hotel_name, review, room_type, meal) ==
  <<"|">> \o Cell(DisplayName(hotel_name, room_type, review))
    \o Cell(Upper(GetDef(meal, "mealPlan", S(<<>>)).v))
    \o Cell(Str(GetDef(meal, "seasonType", S(<<>>))))
    \o Cell(FormatPrice(GetDef(meal, "roomPrice", S(<<>>))))
    \o Cell(FormatPrice(GetDef(meal, "adultPrice", S(<<>>))))
    \o Cell(FormatPrice(GetDef(meal, "childPrice", S(<<>>))))

\* lines 127-158: rows of one room, Raise when an entry is malformed
RECURSIVE MealRows(_, _, _, _)
MealRows(hotel_name, review, room_type, meals) ==
  IF Len(meals) = 0 THEN Ret(<<>>)
  ELSE IF MealRowRaises(Head(meals)) THEN Raise("AttributeError")
  ELSE LET rest == MealRows(hotel_name, review, room_type, Tail(meals))
       IN IF rest.raised THEN rest
          ELSE Ret(<<MealRow(hotel_name, review, room_type, Head(meals))>> \o rest.v)

RECURSIVE RoomRows(_, _, _)
RoomRows(hotel_name, review, rooms) ==
  IF Len(rooms) = 0 THEN Ret(<<>>)
  ELSE IF ~IsDict(Head(rooms)) THEN Raise("AttributeError")
  ELSE LET room == Head(rooms)
           meals == ItemsOf(GetDef(room, "mealPlans", L(<<>>)))
       IN IF meals.raised THEN meals
          ELSE LET first == MealRows(hotel_name, review,
                                     GetDef(room, "roomType", S(<<>>)), meals.v)
                   rest == RoomRows(hotel_name, review, Tail(rooms))
               IN IF first.raised THEN first
                  ELSE IF rest.raised THEN rest
                  ELSE Ret(first.v \o rest.v)

\* lines 121-158: rows of all hotels, in source order
RECURSIVE HotelRows(_)
HotelRows(hotels) ==
  IF Len(hotels) = 0 THEN Ret(<<>>)
  ELSE IF ~IsDict(Head(hotels)) THEN Raise("AttributeError")
  ELSE LET hotel == Head(hotels)
           rooms == ItemsOf(GetDef(hotel, "rooms", L(<<>>)))
       IN IF rooms.raised THEN rooms
          ELSE LET first == RoomRows(GetDef(hotel, "hotelName", S(<<>>)),
                                     GetDef(hotel, "review", S(<<>>)), rooms.v)
                   rest == HotelRows(Tail(hotels))
               IN IF first.raised THEN first
                  ELSE IF rest.raised THEN rest
                  ELSE Ret(first.v \o rest.v)

\* lines 161-168: the sort key read back from the rendered row
extract_price(row) ==
  LET parts == Split(row, "|")
  IN IF Len(parts) < 5 THEN Infinite
     ELSE LET price_part == Strip(parts[5])
              digits == Remove(Remove(price_part, RUPEE), ",")
          IN IF RUPEE \in Range(price_part) /\ IsNumeric(digits)
             THEN Finite(FloatOf(digits))
             ELSE Infinite

\* the local rows carried over from the flight branch
RowsKept(rows) == rows
\* line 120: rows = [] rebinds the local the flight branch used for its rows
InitialRows(rows) == <<>>

\* lines 119-182: the hotel section rendered from the selected hotel list;
\* rows is the local variable as the flight branch left it
HotelSectionOf(destination_hotels, rows) ==
  LET items == ItemsOf(destination_hotels)
  IN IF items.raised THEN InfoLine("Hotel search error: exception")
     ELSE LET made == HotelRows(items.v)
              all == InitialRows(rows) \o made.v
          IN IF made.raised THEN InfoLine("Hotel search error: exception")
             ELSE IF Len(all) = 0 THEN InfoLine("No hotels found for this destination.")
             ELSE InfoTable(SortedItems([i \in 1..Len(all) |->
                              [key |-> extract_price(all[i]), item |-> all[i]]]))

\* tripxplo_get_hotels(plan) once the token is held: a failed request
\* yields [], a successful one the result field of the answer
tripxplo_get_hotels(live) == IF live.ok THEN live.result ELSE L(<<>>)

\* fetch_all_hotels() once the token is held: the result field of the
\* answer, [] when the request fails
fetch_all_hotels(bulk) ==
  IF bulk.ok THEN bulk.result ELSE L(<<>>)

\* lines 88-182: the hotel branch over the loaded catalog df and the
\* provider's answer live; calls is the sequence of sources consulted
HotelBranchOf(package, df, live, rows) ==
  LET destination_id == extract_destination_id_from_package(package)
      catalog == IF Truthy(destination_id)
                 THEN get_hotels_by_destination(df, destination_id) ELSE <<>>
      embedded == extract_hotels_from_package(package)
      c1 == IF Truthy(destination_id) THEN <<"catalog", "catalog_summary">> ELSE <<>>
      chosen == IF Len(catalog) > 0 THEN L(catalog)
                ELSE IF Truthy(embedded) THEN embedded
                ELSE tripxplo_get_hotels(live)
  IN [info |-> HotelSectionOf(chosen, rows),
      hotels |-> chosen,
      calls |-> c1 \o (IF Len(catalog) > 0 THEN <<>>
                       ELSE IF Truthy(embedded) THEN <<"embedded">>
                       ELSE <<"embedded", "live_hotels">>)]


\* ------------------------------------------------ booking orchestrator
\* get_tripxplo_token(): the cache after the call and whether it raised;
\* login is what the provider does when a login request is sent
get_tripxplo_token(cache, login) ==
  IF cache # NoToken THEN [raised |-> FALSE, cache |-> cache, calls |-> <<>>]
  ELSE IF login = "ok" THEN [raised |-> FALSE, cache |-> Token, calls |-> <<"login">>]
  ELSE [raised |-> TRUE, cache |-> NoToken, calls |-> <<"login">>]

\* lines 88-92 of tripxplo_api.py: the first listed package with this id
RECURSIVE FindPackage(_, _)
FindPackage(docs, package_id) ==
  IF Len(docs) = 0 THEN None
  ELSE IF Str(Get(Head(docs), "_id")) = package_id THEN Head(docs)
       ELSE FindPackage(Tail(docs), package_id)

\* tripxplo_get_package_by_id(package_id) once the token is held
tripxplo_get_package_by_id(package_id, list_ok, docs) ==
  IF list_ok THEN FindPackage(docs, package_id) ELSE None

\* tripxplo_get_destination_by_id(destination_id) once the token is held
tripxplo_get_destination_by_id(destination_id, resp) ==
  IF ~ValidId(destination_id) THEN [result |-> EmptyDict, calls |-> <<>>]
  ELSE [result |-> IF resp.ok THEN resp.result ELSE EmptyDict, calls |-> <<"destination">>]

PlanActualName(package, plan_id) ==
  Or(Or(Get(package, "packageName"), Get(package, "name")), S(plan_id)).v

\* lines 27-40: the destination code, "" when unresolved, or the exception
\* that escapes
ResolveOf(package, plan_id, resp) ==
  LET destination_data == DestinationDataOf(package)
      name == PlanActualName(package, plan_id)
  IN IF IsList(destination_data) /\ Truthy(destination_data)
     THEN LET dest_obj == destination_data.v[1]
          IN IF ~IsDict(dest_obj)
             THEN [raised |-> TRUE, dest |-> <<>>, calls |-> <<>>]
             ELSE LET destination_id == Get(dest_obj, "destinationId")
                      looked == IF Truthy(destination_id)
                                THEN tripxplo_get_destination_by_id(destination_id, resp)
                                ELSE [result |-> EmptyDict, calls |-> <<>>]
                  IN IF ~IsDict(looked.result)
                     THEN [raised |-> TRUE, dest |-> <<>>, calls |-> looked.calls]
                     ELSE LET found == Or(Or(Get(looked.result, "name"),
                                             Get(looked.result, "city")), S(<<>>))
                              guessed == extract_city_from_package_name(name, package)
                          IN IF Truthy(found)
                             THEN [raised |-> FALSE, dest |-> city_to_iata(found.v),
                                   calls |-> looked.calls]
                             ELSE IF guessed.raised
                             THEN [raised |-> TRUE, dest |-> <<>>, calls |-> looked.calls]
                             ELSE [raised |-> FALSE, dest |-> city_to_iata(guessed.v),
                                   calls |-> looked.calls]
     ELSE IF IsStr(destination_data) /\ Len(destination_data.v) = 3
     THEN [raised |-> FALSE, dest |-> destination_data.v, calls |-> <<>>]
     ELSE [raised |-> FALSE, dest |-> <<>>, calls |-> <<>>]


\* --------------------------------------------------- bounded scenarios
Absent == [t |-> "absent"]
Field(k, x) == IF x = Absent THEN <<>> ELSE (k :> x)

Pkg(name, destination, destinationName, hotel, hotels, hotelOptions, availableHotels) ==
  D(Field("_id", S(KnownId)) @@ Field("name", S(name))
    @@ Field("destination", destination) @@ Field("destinationName", destinationName)
    @@ Field("hotel", hotel) @@ Field("hotels", hotels)
    @@ Field("hotelOptions", hotelOptions) @@ Field("availableHotels", availableHotels))

Meal(mealPlan, roomPrice, seasonType) ==
  D([mealPlan |-> mealPlan, roomPrice |-> roomPrice, adultPrice |-> N(500),
     childPrice |-> None, seasonType |-> seasonType])
Room(meals) == D([roomType |-> S(<<"D","x">>), mealPlans |-> L(meals)])
Hotel(name, rooms) == D([hotelName |-> S(name), review |-> N(4), rooms |-> L(rooms)])
FlatHotel == D([name |-> S(<<"F">>), mealPlan |-> S(<<"c","p">>), noOfNight |-> N(2)])

CP == S(<<"c","p">>)
Peak == S(<<"p","k">>)
MealKinds ==
  { Meal(CP, N(8000), Peak),
    Meal(CP, N(3000), Peak),
    Meal(CP, None, Peak),
    Meal(CP, S(<<"a">>), Peak),
    Meal(CP, N(3000), S(<<"a","|","b">>)),
    Meal(None, N(3000), Peak) }

HotelH == Hotel(<<"H">>, << Room(<< Meal(CP, N(8000), Peak), Meal(CP, N(3000), Peak) >>) >>)
HotelG == Hotel(<<"G">>, << Room(<< Meal(CP, N(5000), Peak) >>) >>)

\* tripxplo_get_hotels: what the provider answers for the package
LiveFew ==
  { [ok |-> FALSE, result |-> None],
    [ok |-> TRUE, result |-> L(<<HotelG>>)] }
LiveEnvs ==
  LiveFew
  \cup { [ok |-> TRUE, result |-> None],
         [ok |-> TRUE, result |-> L(<<>>)],
         [ok |-> TRUE, result |-> L(<<FlatHotel>>)],
         [ok |-> TRUE, result |-> L(<<Hotel(<<"H">>, <<S(<<"x">>)>>)>>)] }
  \cup { [ok |-> TRUE, result |-> L(<<Hotel(<<"H">>, <<Room(meals)>>)>>)] :
           meals \in SeqsUpTo(MealKinds, MaxMeals) }

DestResponseDefault == [ok |-> TRUE, result |-> D([name |-> S(CityMunnar)])]
FlightDefault ==
  [token |-> "ok",
   resp |-> [status |-> 200, data |-> L(<<Offer(S(<<"2","0","0">>), "full", <<"A","I">>)>>)]]
FlightFew == {FlightDefault, [token |-> "ok", resp |-> [status |-> 500, data |-> None]]}

AgainFlights ==
  FlightFew \cup {[token |-> "fail", resp |-> [status |-> 0, data |-> None]],
                  [token |-> "ok", resp |-> [status |-> 0, data |-> None]],
                  [token |-> "ok", resp |-> [status |-> 200, data |-> L(<<>>)]]}

ListDest == L(<< D([destinationId |-> S(LongId)]) >>)
ListNoId == L(<< D([destinationId |-> S(ShortId)]) >>)

\* packages that differ in the destination reference
DestPackages ==
  { Pkg(name, destination, destinationName, Absent, Absent, Absent, Absent) :
      name \in PackageNames, destination \in DestinationShapes,
      destinationName \in DestinationNames \cup {Absent} }
  \cup { D([_id |-> S(KnownId), packageName |-> S(NameCity), name |-> S(NamePlain),
            to |-> S(CodeCOK)]),
         D([_id |-> S(KnownId), cityCode |-> L(<< D([destinationId |-> S(LongId)]) >>)]) }

\* packages that differ in the embedded hotel lists
EmbeddedPackages ==
  { Pkg(NameCity, destination, Absent, e[1], e[2], e[3], e[4]) :
      destination \in {ListDest, ListNoId},
      e \in { <<L(<<HotelH>>), Absent, Absent, Absent>>,
              <<L(<<>>), L(<<HotelG>>), Absent, L(<<HotelH>>)>>,
              <<D([x |-> HotelH]), Absent, L(<<HotelH>>), L(<<HotelG>>)>>,
              <<Absent, Absent, Absent, L(<<FlatHotel>>)>> } }

\* GET /admin/hotel: what the provider answers to the bulk hotel fetch
BulkRecord ==
  D([hotelId |-> S(<<"h">>), hotelName |-> S(<<"H">>), roomPrice |-> N(4000),
     adultPrice |-> N(400), childPrice |-> N(200)])
BulkDefault == [ok |-> TRUE, result |-> L(<<BulkRecord>>)]
BulkFailed == [ok |-> FALSE, result |-> None]

Scenario(package, destination, flight, live) ==
  [docs |-> <<package>>, destination |-> destination, flight |-> flight, live |-> live,
   bulk |-> BulkDefault, now |-> NowDefault]

LiveEmpty == [ok |-> TRUE, result |-> L(<<>>)]
BareNoId == Pkg(NameCity, ListNoId, Absent, Absent, Absent, Absent, Absent)
BareDest == Pkg(NameCity, ListDest, Absent, Absent, Absent, Absent, Absent)

\* what one request meets: the listed package and the collaborators' answers
Scenarios ==
  { Scenario(p, DestResponseDefault, FlightDefault, LiveEmpty) : p \in DestPackages }
  \cup { Scenario(p, d, FlightDefault, LiveEmpty) :
           p \in {q \in DestPackages : Get(q, "destination") = ListDest},
           d \in DestinationResponses }
  \cup { Scenario(BareDest, DestResponseDefault, f, LiveEmpty) : f \in FlightEnvs }
  \cup { Scenario(p, DestResponseDefault, FlightDefault, l) :
           p \in EmbeddedPackages, l \in LiveFew }
  \cup { Scenario(BareNoId, DestResponseDefault, FlightDefault, l) : l \in LiveEnvs }
  \cup { Scenario(BareDest, DestResponseDefault, FlightDefault, l) : l \in LiveFew }
  \cup { [Scenario(BareNoId, DestResponseDefault, FlightDefault, l) EXCEPT !.bulk = BulkFailed] :
           l \in LiveFew }

\* the catalog file of the deployment
CsvRow(name, destinationId, roomDetails) ==
  [hotelName |-> S(name), hotelId |-> S(<<"h">>), review |-> N(4), viewPoint |-> None,
   location |-> IF destinationId = Unparsable THEN Unparsable
                ELSE D([destinationId |-> destinationId]),
   hotelRoomDetails |-> roomDetails]
CsvMeal(roomPrice) ==
  D([mealPlan |-> CP, roomPrice |-> roomPrice, adultPrice |-> N(500), seasonType |-> Peak])
CsvFiles ==
  { [readable |-> FALSE, rows |-> <<>>],
    [readable |-> TRUE,
     rows |-> << CsvRow(<<"Z">>, S(OtherId),
                        L(<< D([hotelRoomType |-> S(<<"D","x">>),
                                mealPlan |-> L(<<CsvMeal(N(7000))>>)]) >>)),
                 CsvRow(<<"U">>, Unparsable, L(<<>>)) >>],
    [readable |-> TRUE,
     rows |-> << CsvRow(<<"C">>, S(LongId),
                        L(<< D([hotelRoomType |-> S(<<"D","x">>),
                                mealPlan |-> L(<<CsvMeal(N(8000)), CsvMeal(None),
                                                 CsvMeal(N(3000))>>)]),
                             D([hotelRoomType |-> S(<<"S","t">>), mealPlan |-> L(<<>>)]) >>)),
                 CsvRow(<<"U">>, S(LongId), Unparsable),
                 CsvRow(<<"E">>, S(LongId),
                        L(<< D([hotelRoomType |-> S(<<"D","x">>)]) >>)) >>],
    \* the same hotel row twice
    [readable |-> TRUE,
     rows |-> << CsvRow(<<"C">>, S(LongId),
                        L(<< D([hotelRoomType |-> S(<<"D","x">>),
                                mealPlan |-> L(<<CsvMeal(N(3000))>>)]) >>)),
                 CsvRow(<<"C">>, S(LongId),
                        L(<< D([hotelRoomType |-> S(<<"D","x">>),
                                mealPlan |-> L(<<CsvMeal(N(3000))>>)]) >>)) >>] }


\* configurations a process may be started with
Deployments ==
  {[creds |-> TRUE, csv |-> f] : f \in CsvFiles}
  \cup {[creds |-> FALSE, csv |-> [readable |-> FALSE, rows |-> <<>>]]}

\* ---------------------------------------------------------------- state
VARIABLES
  AMADEUS_CREDS,     \* config: both flight credentials are set
  csv_file,          \* the catalog file of the deployment
  token_cache,       \* tripxplo_api._token_cache
  hotel_mapper,      \* hotel_mapper._hotel_mapper_instance: "unset" or its frame
  pc,                \* position of the current book_travel request
  plan,              \* argument plan of the request
  env,               \* what the collaborators answer during this request
  package,           \* line 23
  plan_actual_name,  \* line 26
  dest,              \* line 27-40; the empty string stands for None and ""
  flight_info,       \* line 44-87
  rows,              \* the local rows: lines 62-73, then lines 120-170
  destination_hotels,\* the hotel list the hotel branch renders, lines 95-117
  hotel_info,        \* line 88-182
  result,            \* what the request returned or raised
  calls,             \* collaborator requests of this request, in order
  date,              \* argument date of the request
  dep_date_str,      \* line 21
  ret_date_str,      \* line 22
  flight_params,     \* lines 47-53: params of the flight-offers request sent
  fn,                \* the helper function called on its own, "none" when none is
  fn_arg,            \* its argument
  fn_ret,            \* what it returned, Pending before the call
  threads,           \* position and locals of each caller of get_tripxplo_token
  name_cache,        \* _hotel_id_to_name_cache of tripxplo_api and of booking_agent
  log,               \* the calls completed so far on the process-wide caches
  prev               \* hotel section of the preceding request, when the
                     \* current one repeats it with another flight answer

vars == <<AMADEUS_CREDS, csv_file, token_cache, hotel_mapper, pc, plan, env, package,
          plan_actual_name, dest, flight_info, rows, destination_hotels, hotel_info,
          result, calls, date, dep_date_str, ret_date_str, flight_params,
          fn, fn_arg, fn_ret, threads, name_cache, log, prev>>
caches == <<threads, name_cache, log>>
helper_fn == <<fn, fn_arg, fn_ret>>
helper == <<helper_fn, caches>>
dates == <<date, dep_date_str, ret_date_str>>
process == <<AMADEUS_CREDS, csv_file, token_cache, hotel_mapper>>

NoResult == [kind |-> "none", text |-> <<>>, flight |-> NoInfo, hotel |-> NoInfo]
\* the one-line results and the exception that escapes book_travel
ResultLine(kind, text) == [kind |-> kind, text |-> text, flight |-> NoInfo, hotel |-> NoInfo]
\* lines 183-193: the report
Report(name, flight, hotel) ==
  [kind |-> "report", text |-> name, flight |-> flight, hotel |-> hotel]
NoPrev == [set |-> FALSE, hotel |-> NoInfo, flight |-> NoInfo]
NoEnv == Scenario(None, DestResponseDefault, FlightDefault, [ok |-> FALSE, result |-> None])

\* lines 47-53: the params of the flight-offers request
FlightParams(to, departure) ==
  [originLocationCode |-> Origin, destinationLocationCode |-> to,
   departureDate |-> departure, adults |-> 1, max |-> 5]
NoParams ==
  [originLocationCode |-> <<>>, destinationLocationCode |-> <<>>,
   departureDate |-> <<>>, adults |-> 0, max |-> 0]

\* no caller is inside get_tripxplo_token and both name caches are unset
NThreads == 2
IdleThread == [pc |-> "idle", entry |-> "none", response |-> None]
CachesIdle ==
  /\ threads = [t \in 1..NThreads |-> IdleThread]
  /\ name_cache = [tripxplo_api |-> None, booking_agent |-> None]
  /\ log = <<>>

Init ==
  /\ \E d \in Deployments : AMADEUS_CREDS = d.creds /\ csv_file = d.csv
  /\ token_cache = NoToken
  /\ hotel_mapper = "unset"
  /\ pc = "idle"
  /\ plan = <<>>
  /\ env = NoEnv
  /\ package = None
  /\ plan_actual_name = <<>>
  /\ dest = <<>>
  /\ flight_info = NoInfo
  /\ rows = <<>>
  /\ destination_hotels = L(<<>>)
  /\ hotel_info = NoInfo
  /\ result = NoResult
  /\ calls = <<>>
  /\ date = <<>>
  /\ dep_date_str = <<>>
  /\ ret_date_str = <<>>
  /\ flight_params = NoParams
  /\ fn = "none" /\ fn_arg = None /\ fn_ret = None
  /\ CachesIdle
  /\ prev = NoPrev

\* a caller invokes book_travel(plan, customer, date)
Enter(p, d, e) ==
  /\ pc' = "package"
  /\ plan' = p
  /\ date' = d
  /\ dep_date_str' = isoformat(DepDate(d, e.now))
  /\ ret_date_str' = isoformat(RetDate(DepDate(d, e.now)))
  /\ flight_params' = NoParams
  /\ env' = e
  /\ package' = None
  /\ plan_actual_name' = <<>>
  /\ dest' = <<>>
  /\ flight_info' = NoInfo
  /\ rows' = <<>>
  /\ destination_hotels' = L(<<>>)
  /\ hotel_info' = NoInfo
  /\ result' = NoResult
  /\ calls' = <<>>
  /\ UNCHANGED <<process, helper>>

\* the requests callers make: a package id and what the request meets
DefaultScenario == Scenario(BareDest, DestResponseDefault, FlightDefault, LiveEmpty)
Requests ==
  {[plan |-> KnownId, date |-> <<>>, env |-> e] : e \in Scenarios}
  \cup {[plan |-> UnknownId, date |-> <<>>, env |-> DefaultScenario]}
  \cup {[plan |-> KnownId, date |-> d, env |-> [DefaultScenario EXCEPT !.now = n]] :
          d \in DateInputs, n \in NowInputs}

Call ==
  /\ pc = "idle"
  /\ \E r \in Requests : Enter(r.plan, r.date, r.env)
  /\ prev' = NoPrev

\* the same request is made again; only the flight provider answers differently
CallAgain ==
  /\ pc = "done"
  /\ result.kind = "report"
  /\ ~prev.set
  /\ \E f \in AgainFlights :
       Enter(plan, date, [env EXCEPT !.flight = f])
  /\ prev' = [set |-> TRUE, hotel |-> hotel_info, flight |-> flight_info]

Return(r) ==
  /\ pc' = "done"
  /\ result' = r

\* lines 23-26: tripxplo_get_package_by_id(plan) and the not-found return
GetPackage ==
  /\ pc = "package"
  /\ \E login \in LoginOutcomes, list_ok \in BOOLEAN :
       LET tok == get_tripxplo_token(token_cache, login)
           found == tripxplo_get_package_by_id(plan, list_ok, env.docs)
       IN /\ token_cache' = tok.cache
          /\ IF tok.raised
             THEN /\ Return(ResultLine("raised", <<"login">>))
                  /\ calls' = calls \o tok.calls
                  /\ UNCHANGED <<package, plan_actual_name>>
             ELSE /\ calls' = calls \o tok.calls \o <<"package_list">>
                  /\ package' = found
                  /\ IF Truthy(found)
                     THEN /\ pc' = "destination"
                          /\ plan_actual_name' = PlanActualName(found, plan)
                          /\ UNCHANGED result
                     ELSE /\ Return(ResultLine("package_not_found", plan))
                          /\ UNCHANGED plan_actual_name
  /\ UNCHANGED <<helper, AMADEUS_CREDS, csv_file, hotel_mapper, plan, env, dest,
                 flight_info, rows, destination_hotels, hotel_info, dates,
                 flight_params, prev>>

\* lines 27-42: the destination code and the destination-not-found return
ResolveDestination ==
  /\ pc = "destination"
  /\ LET r == ResolveOf(package, plan, env.destination)
     IN /\ calls' = calls \o r.calls
        /\ dest' = r.dest
        /\ IF r.raised THEN Return(ResultLine("raised", <<"AttributeError">>))
           ELSE IF r.dest = <<>>
           THEN Return(ResultLine("destination_not_found", plan_actual_name))
           ELSE pc' = "flight" /\ UNCHANGED result
  /\ UNCHANGED <<process, helper, plan, env, package, plan_actual_name,
                 flight_info, rows, destination_hotels, hotel_info, dates,
                 flight_params, prev>>

\* lines 43-87: the flight branch
FlightBranch ==
  /\ pc = "flight"
  /\ LET f == FlightBranchOf(AMADEUS_CREDS, env.flight, dest)
     IN /\ flight_info' = f.info
        /\ rows' = f.info.rows
        /\ calls' = calls \o f.calls
        /\ flight_params' = IF "flight_offers" \in Range(f.calls)
                            THEN FlightParams(dest, dep_date_str) ELSE NoParams
  /\ pc' = "hotel"
  /\ UNCHANGED <<process, helper, plan, env, package, plan_actual_name, dest,
                 destination_hotels, hotel_info, result, dates, prev>>

\* lines 88-193: the hotel branch and the composed report
HotelBranch ==
  /\ pc = "hotel"
  /\ LET uses_mapper == Truthy(extract_destination_id_from_package(package))
         df == IF hotel_mapper = "unset" THEN LoadData(csv_file) ELSE hotel_mapper
         h == HotelBranchOf(package, df, env.live, rows)
     IN /\ hotel_mapper' = IF uses_mapper THEN df ELSE hotel_mapper
        /\ destination_hotels' = h.hotels
        /\ hotel_info' = h.info
        /\ rows' = h.info.rows
        /\ calls' = calls \o h.calls
        /\ Return(Report(plan_actual_name, flight_info, h.info))
  /\ UNCHANGED <<helper, AMADEUS_CREDS, csv_file, token_cache, plan, env, package,
                 plan_actual_name, dest, flight_info, dates, flight_params, prev>>

\* the caller has the result; the locals of the request are gone
Finish ==
  /\ pc = "done"
  /\ pc' = "idle"
  /\ plan' = <<>>
  /\ env' = NoEnv
  /\ package' = None
  /\ plan_actual_name' = <<>>
  /\ dest' = <<>>
  /\ flight_info' = NoInfo
  /\ rows' = <<>>
  /\ destination_hotels' = L(<<>>)
  /\ hotel_info' = NoInfo
  /\ result' = NoResult
  /\ calls' = <<>>
  /\ date' = <<>>
  /\ dep_date_str' = <<>>
  /\ ret_date_str' = <<>>
  /\ flight_params' = NoParams
  /\ prev' = NoPrev
  /\ UNCHANGED <<process, helper>>

Next ==
  Call \/ GetPackage \/ ResolveDestination \/ FlightBranch \/ HotelBranch \/ Finish
Spec == Init /\ [][Next]_vars

\* the same, with requests that are repeated under another flight answer
PairLive ==
  LiveFew
  \cup { [ok |-> TRUE, result |-> L(<<FlatHotel>>)] }
  \cup { [ok |-> TRUE, result |-> L(<<Hotel(<<"H">>, <<Room(<<m>>)>>)>>)] : m \in MealKinds }
PairRequests == {r \in Requests : r.env.flight = FlightDefault /\ r.env.live \in PairLive}
CallFirst ==
  /\ pc = "idle"
  /\ \E r \in PairRequests : Enter(r.plan, r.date, r.env)
  /\ prev' = NoPrev
NextPair ==
  CallFirst \/ CallAgain \/ GetPackage \/ ResolveDestination \/ FlightBranch
    \/ HotelBranch \/ Finish
SpecPair == Init /\ [][NextPair]_vars

\* ------------------------------------------------ helpers called alone
\* packages given to extract_destination_id_from_package
IdChars == {"d", "7"}
IdStrings == {[i \in 1..k |-> c] : k \in 0..MaxIdLen, c \in IdChars}
IdPackage(destination, to, city_code, cityCode) ==
  D(Field("destination", destination) @@ Field("to", to)
    @@ Field("city_code", city_code) @@ Field("cityCode", cityCode))
OtherFields ==
  { <<Absent, Absent, Absent>>,
    <<S(OtherId), Absent, Absent>>,
    <<Absent, L(<<D([destinationId |-> S(OtherId)])>>), Absent>>,
    <<S(<<>>), Absent, D([destinationId |-> S(OtherId)])>> }
ListElements ==
  { D([destinationId |-> S(LongId)]), D([destinationId |-> S(ShortId)]),
    D([destinationId |-> N(12345678)]), D([name |-> S(LongId)]),
    S(OtherId), S(ShortId), N(5), None }
DestinationFields ==
  UNION { {S(v), D([destinationId |-> S(v)]), L(<<D([destinationId |-> S(v)])>>)} :
          v \in IdStrings }
  \cup {L(q) : q \in SeqsUpTo(ListElements, MaxListLen)}
  \cup {EmptyDict, D([name |-> S(LongId)]), D([destinationId |-> None])}
IdPackages ==
  { IdPackage(x, o[1], o[2], o[3]) : x \in DestinationFields, o \in OtherFields }

\* names given to city_to_iata: the table's cities in other letter case and
\* with whitespace around them, and names the table lacks
Cities == {CITY_TO_IATA[i].city : i \in 1..Len(CITY_TO_IATA)}
Alternate(s) == [i \in 1..Len(s) |-> IF i % 2 = 1 THEN LowerOf(s[i]) ELSE UpperOf(s[i])]
Recase(s, up) == [i \in 1..Len(s) |-> IF up[i] THEN UpperOf(s[i]) ELSE LowerOf(s[i])]
CaseVariants(s) ==
  {s, Lower(s), Upper(s), Alternate(s)}
  \cup (IF Len(s) <= MaxCaseLen THEN {Recase(s, up) : up \in [1..Len(s) -> BOOLEAN]} ELSE {})
Paddings == { <<<<>>, <<>>>>, <<<<" ">>, <<>>>>, <<<<>>, <<"\t">>>>, <<<<" ", "\n">>, <<" ", " ">>>> }
UnknownNames ==
  { <<"P","a","r","i","s">>,
    <<>>,
    <<" "," ">>,
    <<"M","u","n"," ","n","a","r">>,
    <<"M","u","n","n","a","r","1">>,
    <<"G","o","a","a">>,
    <<"x"," ","G","o","a">> }
CityNames ==
  UNION { {p[1] \o v \o p[2] : v \in CaseVariants(c), p \in Paddings} : c \in Cities }
  \cup UnknownNames

\* titles and destinationName fields given to extract_city_from_package_name
Titles ==
  { <<"O","o","t","y"," ","t","r","i","p">>,
    <<"G","o","a"," ","a","n","d"," ","M","u","n","n","a","r"," ","t","o","u","r">>,
    <<"K","E","R","A","L","A"," ","K","O","C","H","I">>,
    <<"S","t","a","y"," ","i","n"," ","X","y">>,
    <<"T","o","u","r">>,
    <<"C","a","b","i","n"," ","s","t","a","y">>,
    <<"T","r","i","p"," ","i","n"," ","2","0","2","5">>,
    <<"S","t","a","y"," ","i","n"," "," ","H","i","l","l"," ","T","o","w","n","-","x">>,
    <<"G","o"," ","i","n"," ","X","y"," ","i","n"," ","Z","z">>,
    <<"B","a","l","i","n","e","s","e"," ","f","o","o","d">>,
    <<"t","r","a","i","n"," ","9"," ","i","n"," ","A","b">> }
DestinationNameFields ==
  { Absent, None, S(<<>>),
    S(<<"G","o","a",","," ","M","u","n","n","a","r">>),
    S(<<"s","o","m","e","w","h","e","r","e">>),
    S(<<"C","O","O","R","G"," ","h","i","l","l","s">>) }
CityQueries ==
  { [package_name |-> t, package |-> D(Field("destinationName", n))] :
      t \in Titles, n \in DestinationNameFields }

Pending == [t |-> "pending"]
InitHelpers ==
  /\ AMADEUS_CREDS = TRUE /\ csv_file = [readable |-> FALSE, rows |-> <<>>]
  /\ token_cache = NoToken
  /\ hotel_mapper = "unset"
  /\ pc = "idle"
  /\ plan = <<>>
  /\ env = NoEnv
  /\ package = None
  /\ plan_actual_name = <<>>
  /\ dest = <<>>
  /\ flight_info = NoInfo
  /\ rows = <<>>
  /\ destination_hotels = L(<<>>)
  /\ hotel_info = NoInfo
  /\ result = NoResult
  /\ calls = <<>>
  /\ date = <<>>
  /\ dep_date_str = <<>>
  /\ ret_date_str = <<>>
  /\ flight_params = NoParams
  /\ prev = NoPrev
  /\ CachesIdle
  /\ fn_ret = Pending
  /\ \/ fn = "extract_destination_id_from_package" /\ fn_arg \in IdPackages
     \/ fn = "city_to_iata" /\ fn_arg \in {S(n) : n \in CityNames}
     \/ fn = "extract_city_from_package_name" /\ fn_arg \in CityQueries
main == <<process, pc, plan, env, package, plan_actual_name, dest, flight_info, rows,
          destination_hotels, hotel_info, result, calls, dates, flight_params, prev>>
CallExtractDestinationId ==
  /\ fn = "extract_destination_id_from_package" /\ fn_ret = Pending
  /\ fn_ret' = extract_destination_id_from_package(fn_arg)
  /\ UNCHANGED <<main, caches, fn, fn_arg>>
CallCityToIata ==
  /\ fn = "city_to_iata" /\ fn_ret = Pending
  /\ fn_ret' = S(city_to_iata(fn_arg.v))
  /\ UNCHANGED <<main, caches, fn, fn_arg>>
CallExtractCity ==
  /\ fn = "extract_city_from_package_name" /\ fn_ret = Pending
  /\ fn_ret' = extract_city_from_package_name(fn_arg.package_name, fn_arg.package)
  /\ UNCHANGED <<main, caches, fn, fn_arg>>
NextHelpers == CallExtractDestinationId \/ CallCityToIata \/ CallExtractCity
SpecHelpers == InitHelpers /\ [][NextHelpers]_vars

\* ------------------------------------------- the catalog queried alone
\* no booking request is being handled
MainIdle ==
  /\ AMADEUS_CREDS = TRUE /\ csv_file = [readable |-> FALSE, rows |-> <<>>]
  /\ token_cache = NoToken
  /\ hotel_mapper = "unset"
  /\ pc = "idle"
  /\ plan = <<>>
  /\ env = NoEnv
  /\ package = None
  /\ plan_actual_name = <<>>
  /\ dest = <<>>
  /\ flight_info = NoInfo
  /\ rows = <<>>
  /\ destination_hotels = L(<<>>)
  /\ hotel_info = NoInfo
  /\ result = NoResult
  /\ calls = <<>>
  /\ date = <<>>
  /\ dep_date_str = <<>>
  /\ ret_date_str = <<>>
  /\ flight_params = NoParams
  /\ prev = NoPrev

MaxRows == 2
Dx == S(<<"D","x">>)
St == S(<<"S","t">>)
MAP == S(<<"m","a","p">>)
Off == S(<<"o","f","f">>)
PlanOf(mealPlan, seasonType, roomPrice) ==
  D([mealPlan |-> mealPlan, seasonType |-> seasonType, roomPrice |-> roomPrice,
     adultPrice |-> N(500)])
PlanNoPrice(mealPlan, seasonType) ==
  D([mealPlan |-> mealPlan, seasonType |-> seasonType])
RoomOf(type, plans) == D([hotelRoomType |-> type, mealPlan |-> L(plans)])
\* the kinds of catalog row: the location column and the room-details column
RowKinds ==
  { \* two rooms, prices numeric, zero, null, absent and text
    [location |-> D([destinationId |-> S(LongId)]),
     hotelRoomDetails |-> L(<< RoomOf(Dx, << PlanOf(CP, Peak, N(8000)), PlanOf(MAP, Off, N(0)),
                                             PlanOf(CP, Off, None) >>),
                               RoomOf(St, << PlanOf(MAP, Peak, S(<<"9","0","0">>)),
                                             PlanNoPrice(CP, Peak) >>) >>)],
    \* numeric prices only
    [location |-> D([destinationId |-> S(LongId)]),
     hotelRoomDetails |-> L(<< RoomOf(Dx, << PlanOf(CP, Peak, N(4000)),
                                             PlanOf(MAP, Off, N(6000)) >>) >>)],
    \* another destination
    [location |-> D([destinationId |-> S(OtherId)]),
     hotelRoomDetails |-> L(<< RoomOf(Dx, << PlanOf(CP, Peak, N(7000)) >>) >>)],
    \* a row whose destinationId is the empty string
    [location |-> D([destinationId |-> S(<<>>)]),
     hotelRoomDetails |-> L(<< RoomOf(Dx, << PlanOf(CP, Peak, N(5000)) >>) >>)],
    \* columns that do not parse
    [location |-> Unparsable,
     hotelRoomDetails |-> L(<< RoomOf(Dx, << PlanOf(CP, Peak, N(2000)) >>) >>)],
    [location |-> D([destinationId |-> S(LongId)]), hotelRoomDetails |-> Unparsable],
    \* a location that is a list, a room that is a string
    [location |-> L(<< S(LongId) >>),
     hotelRoomDetails |-> L(<< RoomOf(Dx, << PlanOf(CP, Peak, N(2000)) >>) >>)],
    [location |-> D([destinationId |-> S(LongId)]),
     hotelRoomDetails |-> L(<< RoomOf(Dx, << PlanOf(CP, Peak, N(3000)) >>), S(<<"x">>) >>)],
    \* no room; rooms without meal plans; one room without, one with
    [location |-> D([destinationId |-> S(LongId)]), hotelRoomDetails |-> L(<<>>)],
    [location |-> D([destinationId |-> S(LongId)]),
     hotelRoomDetails |-> L(<< D([hotelRoomType |-> Dx]), RoomOf(St, <<>>) >>)],
    [location |-> D([destinationId |-> S(LongId)]),
     hotelRoomDetails |-> L(<< RoomOf(St, <<>>),
                               RoomOf(Dx, << PlanOf(CP, Peak, N(3000)) >>) >>)] }
RowNames == <<"A", "B", "C", "D">>
\* the frame read from a file whose rows are of these kinds, named in order
FrameOf(kinds) ==
  [i \in 1..Len(kinds) |->
     [hotelName |-> S(<<RowNames[i]>>), hotelId |-> S(<<"h", RowNames[i]>>),
      review |-> N(4), viewPoint |-> None,
      location |-> kinds[i].location, hotelRoomDetails |-> kinds[i].hotelRoomDetails]]
CatalogFiles ==
  { [readable |-> FALSE, rows |-> <<>>] }
  \cup { [readable |-> TRUE, rows |-> FrameOf(k)] : k \in SeqsUpTo(RowKinds, MaxRows) }
QueryIds == {S(LongId), S(OtherId), S(<<>>)}
NoFilter == [package_type |-> None, room_type |-> None, season_type |-> None]
FilterSets ==
  [package_type : {None, S(<<>>), CP, MAP}, room_type : {None, S(<<>>), Dx},
   season_type : {None, Peak}]
CatalogQueries ==
  [file : CatalogFiles, destination_id : QueryIds, filters : {NoFilter}]
FilterQueries ==
  [file : CatalogFiles, destination_id : {S(LongId), S(<<>>)}, filters : FilterSets]

InitCatalog ==
  /\ MainIdle
  /\ CachesIdle
  /\ fn_ret = Pending
  /\ \/ fn = "get_hotels_by_destination" /\ fn_arg \in CatalogQueries
     \/ fn = "get_hotel_summary_by_destination" /\ fn_arg \in CatalogQueries
     \/ fn = "get_hotels_by_destination_and_package" /\ fn_arg \in FilterQueries
CallGetHotels ==
  /\ fn = "get_hotels_by_destination" /\ fn_ret = Pending
  /\ fn_ret' = HotelMapper_get_hotels_by_destination(LoadData(fn_arg.file),
                                                     fn_arg.destination_id)
  /\ UNCHANGED <<main, caches, fn, fn_arg>>
CallGetSummary ==
  /\ fn = "get_hotel_summary_by_destination" /\ fn_ret = Pending
  /\ fn_ret' = get_hotel_summary_by_destination(LoadData(fn_arg.file), fn_arg.destination_id)
  /\ UNCHANGED <<main, caches, fn, fn_arg>>
CallGetFiltered ==
  /\ fn = "get_hotels_by_destination_and_package" /\ fn_ret = Pending
  /\ fn_ret' = get_hotels_by_destination_and_package(
                  LoadData(fn_arg.file), fn_arg.destination_id, fn_arg.filters.package_type,
                  fn_arg.filters.room_type, fn_arg.filters.season_type)
  /\ UNCHANGED <<main, caches, fn, fn_arg>>
NextCatalog == CallGetHotels \/ CallGetSummary \/ CallGetFiltered
SpecCatalog == InitCatalog /\ [][NextCatalog]_vars

\* --------------------------------------------- the process-wide caches
MaxCalls == 4
OtherToken == "tok2"
\* what the provider answers to a login request: the HTTP status and the
\* accessToken of the body, NoToken when the body has none
LoginAnswers ==
  { [status |-> 200, accessToken |-> Token], [status |-> 200, accessToken |-> OtherToken],
    [status |-> 200, accessToken |-> NoToken], [status |-> 500, accessToken |-> NoToken] }

\* line 9: if _token_cache
CacheNeverHit(cache) == FALSE
CacheHit(cache) == cache # NoToken

\* a completed call of get_tripxplo_token
TokenCalled(t, login, raised, ret, cache) ==
  [op |-> "get_tripxplo_token", entry |-> threads[t].entry, login |-> login,
   raised |-> raised, ret |-> ret, cache |-> cache]
InFlight == {t \in 1..NThreads : threads[t].pc # "idle"}
Goto(t, at) == threads' = [threads EXCEPT ![t].pc = at]
Leave(t, entry) ==
  /\ threads' = [threads EXCEPT ![t] = IdleThread]
  /\ log' = Append(log, entry)

\* a thread calls get_tripxplo_token()
TokenCall ==
  \E t \in 1..NThreads :
    /\ threads[t].pc = "idle"
    /\ Len(log) + Cardinality(InFlight) < MaxCalls
    /\ threads' = [threads EXCEPT ![t] = [pc |-> "line9", entry |-> token_cache,
                                          response |-> None]]
    /\ UNCHANGED <<main, helper_fn, name_cache, log>>
\* the same, when no other call is in progress
TokenCallAlone ==
  /\ InFlight = {}
  /\ TokenCall
\* lines 9-10
Line9 ==
  \E t \in 1..NThreads :
    /\ threads[t].pc = "line9"
    /\ IF CacheHit(token_cache)
       THEN Leave(t, TokenCalled(t, FALSE, FALSE, token_cache, token_cache))
       ELSE Goto(t, "line12") /\ UNCHANGED log
    /\ UNCHANGED <<main, helper_fn, name_cache>>
\* lines 12-16: the login request and raise_for_status
Line12 ==
  \E t \in 1..NThreads, answer \in LoginAnswers :
    /\ threads[t].pc = "line12"
    /\ threads' = [threads EXCEPT ![t].response = answer,
                                  ![t].pc = IF answer.status = 200 THEN "line17" ELSE "line22"]
    /\ UNCHANGED <<main, helper_fn, name_cache, log>>
\* line 17
Line17 ==
  \E t \in 1..NThreads :
    /\ threads[t].pc = "line17"
    /\ token_cache' = threads[t].response.accessToken
    /\ Goto(t, "line18")
    /\ UNCHANGED <<AMADEUS_CREDS, csv_file, hotel_mapper, pc, plan, env, package,
                   plan_actual_name, dest, flight_info, rows, destination_hotels,
                   hotel_info, result, calls, dates, flight_params, prev,
                   helper_fn, name_cache, log>>
\* lines 18-19
Line18 ==
  \E t \in 1..NThreads :
    /\ threads[t].pc = "line18"
    /\ Goto(t, IF token_cache = NoToken THEN "line22" ELSE "line20")
    /\ UNCHANGED <<main, helper_fn, name_cache, log>>
\* line 20
Line20 ==
  \E t \in 1..NThreads :
    /\ threads[t].pc = "line20"
    /\ Leave(t, TokenCalled(t, TRUE, FALSE, token_cache, token_cache))
    /\ UNCHANGED <<main, helper_fn, name_cache>>
\* lines 21-23
Line22 ==
  \E t \in 1..NThreads :
    /\ threads[t].pc = "line22"
    /\ token_cache' = NoToken
    /\ Leave(t, TokenCalled(t, TRUE, TRUE, NoToken, NoToken))
    /\ UNCHANGED <<AMADEUS_CREDS, csv_file, hotel_mapper, pc, plan, env, package,
                   plan_actual_name, dest, flight_info, rows, destination_hotels,
                   hotel_info, result, calls, dates, flight_params, prev,
                   helper_fn, name_cache>>

InitCaches ==
  /\ MainIdle
  /\ CachesIdle
  /\ fn = "none" /\ fn_arg = None /\ fn_ret = None
NextThreads == TokenCall \/ Line9 \/ Line12 \/ Line17 \/ Line18 \/ Line20 \/ Line22
SpecThreads == InitCaches /\ [][NextThreads]_vars
NextSequential == TokenCallAlone \/ Line9 \/ Line12 \/ Line17 \/ Line18 \/ Line20 \/ Line22
SpecSequential == InitCaches /\ [][NextSequential]_vars

\* the hotel list the provider answers the bulk request with
NamedHotel(id, hotelId, name) == D(Field("_id", id) @@ Field("hotelId", hotelId) @@ Field("name", name))
HotelP == NamedHotel(S(<<"i","1">>), S(<<"h","1">>), S(<<"P">>))
HotelQ == NamedHotel(S(<<"i","2">>), S(<<"h","2">>), S(<<"Q">>))
HotelNameless == NamedHotel(S(<<"i","3">>), S(<<"h","3">>), Absent)
BulkAnswers ==
  { BulkFailed, [ok |-> TRUE, result |-> L(<<>>)],
    [ok |-> TRUE, result |-> L(<<HotelP>>)],
    [ok |-> TRUE, result |-> L(<<HotelP, HotelQ>>)],
    [ok |-> TRUE, result |-> L(<<HotelQ, HotelNameless>>)] }

\* the dict built by the loop over hotels: the last entry of an id wins
Mapping(pairs) == [t |-> "mapping", v |-> pairs]
MappingOf(hotels, key) ==
  Mapping({ <<Get(hotels[i], key), Get(hotels[i], "name")>> :
              i \in {k \in 1..Len(hotels) :
                       /\ Truthy(Get(hotels[k], key)) /\ Truthy(Get(hotels[k], "name"))
                       /\ \A l \in (k + 1)..Len(hotels) :
                            ~(Truthy(Get(hotels[l], "name"))
                              /\ Get(hotels[l], key) = Get(hotels[k], key))} })

\* the outcome of one call of get_hotel_id_to_name_mapping
MappingOutcome(raised, ret, cache, tok, fetched) ==
  [raised |-> raised, ret |-> ret, cache |-> cache, token |-> tok, fetched |-> fetched]

\* tripxplo_api.py lines 124-136; fetch_all_hotels raises only at line 142
api_get_hotel_id_to_name_mapping(cache, tokens, login, bulk) ==
  LET tok == get_tripxplo_token(tokens, login)
      mapping == MappingOf(fetch_all_hotels(bulk).v, "hotelId")
  IN IF cache # None THEN MappingOutcome(FALSE, cache, cache, tokens, FALSE)
     ELSE IF tok.raised THEN MappingOutcome(TRUE, None, cache, tok.cache, FALSE)
     ELSE MappingOutcome(FALSE, mapping, mapping, tok.cache, TRUE)

\* booking_agent.py lines 698-721
agent_get_hotel_id_to_name_mapping(cache, tokens, login, bulk) ==
  LET tok == get_tripxplo_token(tokens, login)
      mapping == MappingOf(bulk.result.v, "_id")
  IN IF cache # None THEN MappingOutcome(FALSE, cache, cache, tokens, FALSE)
     ELSE IF tok.raised THEN MappingOutcome(TRUE, None, cache, tok.cache, FALSE)
     ELSE IF ~bulk.ok THEN MappingOutcome(FALSE, Mapping({}), cache, tok.cache, TRUE)
     ELSE MappingOutcome(FALSE, mapping, mapping, tok.cache, TRUE)

Modules == {"tripxplo_api", "booking_agent"}
\* a completed call of get_hotel_id_to_name_mapping
MappingCalled(module, out, bulk) ==
  [op |-> "get_hotel_id_to_name_mapping", module |-> module, fetched |-> out.fetched,
   answer |-> IF out.fetched THEN bulk ELSE BulkFailed, raised |-> out.raised,
   ret |-> out.ret]
\* the process runs one of the two modules that define the function
InitMapping ==
  /\ MainIdle
  /\ CachesIdle
  /\ fn = "get_hotel_id_to_name_mapping" /\ fn_arg \in {S(<<m>>) : m \in Modules}
  /\ fn_ret = None
CallMapping(module, out, bulk) ==
  /\ Len(log) < MaxCalls
  /\ token_cache' = out.token
  /\ name_cache' = [name_cache EXCEPT ![module] = out.cache]
  /\ log' = Append(log, MappingCalled(module, out, bulk))
  /\ UNCHANGED <<AMADEUS_CREDS, csv_file, hotel_mapper, pc, plan, env, package,
                 plan_actual_name, dest, flight_info, rows, destination_hotels,
                 hotel_info, result, calls, dates, flight_params, prev,
                 helper_fn, threads>>
CallApiMapping ==
  /\ fn_arg = S(<<"tripxplo_api">>)
  /\ \E login \in LoginOutcomes, bulk \in BulkAnswers :
       CallMapping("tripxplo_api",
                   api_get_hotel_id_to_name_mapping(name_cache.tripxplo_api, token_cache,
                                                    login, bulk), bulk)
CallAgentMapping ==
  /\ fn_arg = S(<<"booking_agent">>)
  /\ \E login \in LoginOutcomes, bulk \in BulkAnswers :
       CallMapping("booking_agent",
                   agent_get_hotel_id_to_name_mapping(name_cache.booking_agent, token_cache,
                                                      login, bulk), bulk)
NextMapping == CallApiMapping \/ CallAgentMapping
SpecMapping == InitMapping /\ [][NextMapping]_vars

TypeOK == pc \in {"idle", "package", "destination", "flight", "hotel", "done"}

\* ------------------------------------------------------------ properties
Done == pc = "done"
Found == Truthy(package)
Resolved == Found /\ dest # <<>>
InfoLines(info) == IF info.kind = "table" THEN 2 + Len(info.rows) ELSE 1
\* number of lines of the returned text; 0 when nothing was returned
ResultLines(r) ==
  CASE r.kind \in {"package_not_found", "destination_not_found"} -> 1
    [] r.kind = "report" -> 6 + InfoLines(r.flight) + InfoLines(r.hotel)
    [] OTHER -> 0
Called(op) == \E i \in 1..Len(calls) : calls[i] = op

\* C1: book_travel returns a string and raises no exception, for every
\* package id and every outcome of its collaborators (login failure, package
\* list failure, destination lookup failure, a destination list whose first
\* element is not a mapping, a null destinationName).
C1_NeverRaises == Done => result.kind # "raised"

\* C2: no flight-offer request and no hotel lookup is made unless the package
\* was found and a destination code was resolved; a request whose package is
\* not found ends in one line carrying the package id, and a request whose
\* code is unresolved ends in one destination-not-found line.
LookupOps == {"flight_offers", "catalog", "catalog_summary", "embedded", "live_hotels"}
C2_NoLookupBeforeResolved ==
  (\E op \in LookupOps : Called(op)) => Resolved
C2_ResolveOrOneLine ==
  /\ C2_NoLookupBeforeResolved
  /\ (Done /\ ~Found) =>
        (result.kind = "package_not_found" /\ result.text = plan /\ ResultLines(result) = 1)
  /\ (Done /\ Found /\ dest = <<>>) =>
        (result.kind = "destination_not_found" /\ ResultLines(result) = 1)

\* C3: the destination-not-found result is returned only when every step of
\* the resolution chain fails: whatever the shape of the destination field
\* (list, mapping, string), when the lookup by id or the city heuristics yield
\* a city of the IATA table the request goes on to the report with its code.
ReferencedId(data) ==
  IF IsList(data) /\ Truthy(data) /\ IsDict(data.v[1]) THEN Get(data.v[1], "destinationId")
  ELSE IF IsDict(data) THEN Get(data, "destinationId")
  ELSE IF IsStr(data) THEN data
  ELSE None
LookupCode ==
  LET id == ReferencedId(DestinationDataOf(package))
      r == env.destination
  IN IF ValidId(id) /\ r.ok /\ IsDict(r.result)
        /\ IsStr(Or(Or(Get(r.result, "name"), Get(r.result, "city")), S(<<>>)))
     THEN city_to_iata(Or(Or(Get(r.result, "name"), Get(r.result, "city")), S(<<>>)).v)
     ELSE <<>>
HeuristicCode ==
  LET guessed == extract_city_from_package_name(plan_actual_name, package)
  IN IF guessed.raised THEN <<>> ELSE city_to_iata(guessed.v)
C3_NotFoundOnlyWhenChainFails ==
  (Done /\ Found /\ DestinationDataOf(package).t \in {"list", "dict", "str"}
     /\ (LookupCode # <<>> \/ HeuristicCode # <<>>))
  => (result.kind = "report" /\ dest \in {LookupCode, HeuristicCode} /\ dest # <<>>)

\* C4: once package and destination code are resolved, every failure of the
\* flight branch (no credentials, token failure, non-200 answer, transport
\* exception, malformed offer, empty offer list) leaves a one-line reason as
\* the flight section, and the full report (package name, flight section,
\* hotel section) is still returned.
MalformedOffer(o) == o.total = Missing \/ o.itin = "missing"
FlightFails(fenv) ==
  \/ ~AMADEUS_CREDS
  \/ fenv.token # "ok"
  \/ fenv.resp.status # 200
  \/ ~IsList(fenv.resp.data)
  \/ Len(fenv.resp.data.v) = 0
  \/ \E i \in 1..Len(fenv.resp.data.v) : MalformedOffer(fenv.resp.data.v[i])
C4_FlightFailureNotFatal ==
  (Done /\ Resolved) =>
    /\ result.kind = "report"
    /\ result.text = plan_actual_name
    /\ result.flight = flight_info /\ flight_info.kind \in {"table", "line"}
    /\ result.hotel = hotel_info /\ hotel_info.kind \in {"table", "line"}
    /\ FlightFails(env.flight) => (flight_info.kind = "line" /\ InfoLines(flight_info) = 1)
C4_Witness ==
  /\ Done /\ Resolved /\ AMADEUS_CREDS
  /\ env.flight.token = "fail"
  /\ result.kind = "report" /\ result.hotel.kind = "table"

\* C5: the hotel section does not depend on the flight branch: two requests
\* with the same package, catalog and hotel answers but different flight
\* outcomes render the same hotel section.
C5_HotelSectionIndependent ==
  (Done /\ prev.set /\ result.kind = "report") => result.hotel = prev.hotel
C5_Witness ==
  /\ Done /\ prev.set /\ result.kind = "report"
  /\ prev.flight.kind = "table" /\ result.flight.kind = "line"
  /\ result.hotel.kind = "table"

\* C6: when the flight search answers 200 with a list of offers, the flight
\* table has one row per offer and its rows are in non-decreasing order of
\* the offers' numeric total price, whatever order the provider used.
Injections(n) == {f \in [1..n -> 1..n] : \A i, j \in 1..n : f[i] = f[j] => i = j}
FlightAnswered ==
  /\ Done /\ result.kind = "report" /\ AMADEUS_CREDS
  /\ env.flight.token = "ok" /\ env.flight.resp.status = 200
  /\ IsList(env.flight.resp.data) /\ Len(env.flight.resp.data.v) > 0
Offers == env.flight.resp.data.v
C6_FlightRowsByPrice ==
  (FlightAnswered
     /\ \A i \in 1..Len(Offers) : CanFloat(Offers[i].total) /\ Offers[i].itin # "missing")
  => /\ result.flight.kind = "table"
     /\ Len(result.flight.rows) = Len(Offers)
     /\ \E f \in Injections(Len(Offers)) :
          /\ \A i \in 1..Len(Offers) : result.flight.rows[i] = FlightRow(Offers[f[i]], dest)
          /\ \A i, j \in 1..Len(Offers) :
               i < j => ToFloat(Offers[f[i]].total) <= ToFloat(Offers[f[j]].total)
C6_Witness ==
  /\ FlightAnswered /\ result.flight.kind = "table"
  /\ Len(Offers) >= 2
  /\ CanFloat(Offers[1].total) /\ CanFloat(Offers[2].total)
  /\ ToFloat(Offers[1].total) > ToFloat(Offers[2].total)

\* C7: an offer whose total price is not numeric is rendered with the
\* placeholder price and raises nothing: the flight table still has one row
\* per returned offer, the rows of the numerically priced offers unchanged.
C7_PlaceholderForNonNumeric ==
  (FlightAnswered
     /\ \A i \in 1..Len(Offers) : Offers[i].total # Missing /\ Offers[i].itin # "missing")
  => /\ result.flight.kind = "table"
     /\ Len(result.flight.rows) = Len(Offers)
     /\ \A i \in 1..Len(Offers) :
          \E j \in 1..Len(result.flight.rows) :
            result.flight.rows[j] = FlightRow(Offers[i], dest)

\* C8: the hotel table rows are in non-decreasing order of numeric room
\* price and every row whose room price is missing or unparseable comes
\* after every numerically priced row, whatever text the name, room type,
\* meal-plan code and season fields hold.
RECURSIVE Flatten(_)
Flatten(seqs) == IF Len(seqs) = 0 THEN <<>> ELSE Head(seqs) \o Flatten(Tail(seqs))
RoomRecords(hotel, room) ==
  LET meals == Get(room, "mealPlans").v
  IN [k \in 1..Len(meals) |-> [hotel |-> hotel, room |-> room, meal |-> meals[k]]]
HotelRecords(hotel) ==
  LET rooms == Get(hotel, "rooms").v
  IN Flatten([k \in 1..Len(rooms) |-> RoomRecords(hotel, rooms[k])])
\* the (hotel, room, meal plan) records behind a rendered table
RenderedRecords ==
  Flatten([k \in 1..Len(destination_hotels.v) |-> HotelRecords(destination_hotels.v[k])])
RecordRow(r) ==
  MealRow(Get(r.hotel, "hotelName"), Get(r.hotel, "review"), Get(r.room, "roomType"), r.meal)
RoomPriceOf(r) ==
  LET price == Get(r.meal, "roomPrice")
  IN IF CanFloat(price) THEN Finite(ToFloat(price)) ELSE Infinite
C8_HotelRowsByPrice ==
  (Done /\ result.kind = "report" /\ result.hotel.kind = "table")
  => \E f \in Injections(Len(RenderedRecords)) :
       /\ Len(result.hotel.rows) = Len(RenderedRecords)
       /\ \A i \in 1..Len(RenderedRecords) :
            result.hotel.rows[i] = RecordRow(RenderedRecords[f[i]])
       /\ \A i, j \in 1..Len(RenderedRecords) :
            i < j => KeyLE(RoomPriceOf(RenderedRecords[f[i]]), RoomPriceOf(RenderedRecords[f[j]]))

\* C9: the hotel section is the no-hotels-found message only when all
\* sources are empty: when the catalog yields nothing but the embedded hotel
\* list or the live fetch holds at least one hotel record, the section is a
\* table with at least one row.
ExtractedId == extract_destination_id_from_package(package)
CatalogYieldsNothing ==
  ~Truthy(ExtractedId) \/ get_hotels_by_destination(LoadData(csv_file), ExtractedId) = <<>>
NonEmptyList(x) == IsList(x) /\ Len(x.v) > 0
EmbeddedHasHotels ==
  \E k \in {"hotel", "hotels", "hotelOptions", "availableHotels"} :
    NonEmptyList(Get(package, k))
LiveHasHotels == env.live.ok /\ NonEmptyList(env.live.result)
C9_TableWhenAnySourceHasHotels ==
  (Done /\ result.kind = "report" /\ CatalogYieldsNothing
     /\ (EmbeddedHasHotels \/ LiveHasHotels))
  => (result.hotel.kind = "table" /\ Len(result.hotel.rows) >= 1)

\* C10: the hotel sources are consulted in a fixed order: the catalog only
\* when a destination id of at least 8 characters was extracted; the embedded
\* list only when the catalog result is empty or no id was extracted, taking
\* the first non-empty list among hotel, hotels, hotelOptions,
\* availableHotels; the live fetch only when that embedded list is empty.
ClaimedFields == <<"hotel", "hotels", "hotelOptions", "availableHotels">>
SourceRank(op) ==
  CASE op \in {"catalog", "catalog_summary"} -> 1
    [] op = "embedded" -> 2
    [] op = "live_hotels" -> 3
    [] OTHER -> 0
C10_SourceOrder ==
  /\ Called("catalog") => (IsStr(ExtractedId) /\ Len(ExtractedId.v) >= 8)
  /\ Called("embedded") => CatalogYieldsNothing
  /\ (Called("embedded") /\ ~Called("live_hotels")) =>
       \E i \in 1..4 :
         /\ NonEmptyList(Get(package, ClaimedFields[i]))
         /\ destination_hotels = Get(package, ClaimedFields[i])
         /\ \A j \in 1..(i-1) : ~NonEmptyList(Get(package, ClaimedFields[j]))
  /\ Called("live_hotels") => (Called("embedded") /\ ~EmbeddedHasHotels)
  /\ \A i, j \in 1..Len(calls) : i < j => SourceRank(calls[i]) <= SourceRank(calls[j])
C10_Witness ==
  /\ Done /\ Called("catalog") /\ Called("embedded") /\ ~Called("live_hotels")
  /\ Truthy(Get(package, "hotel"))
  /\ destination_hotels = Get(package, "hotelOptions")

\* C11: a bad record is recovered per record in the hotel branch: when a
\* meal-plan record among the matched hotels is malformed (its meal-plan code
\* is null, or a room entry is not a mapping), the rows of all other valid
\* records are still in the hotel table and the hotel section is not an
\* error line.
DictItems(x) == IF IsList(x) THEN {x.v[i] : i \in {j \in 1..Len(x.v) : IsDict(x.v[j])}} ELSE {}
ValidMeal(meal) == IsDict(meal) /\ IsStr(GetDef(meal, "mealPlan", S(<<>>)))
\* the (hotel, room, meal plan) records of the selected hotels that are well formed
ValidRecords ==
  UNION { UNION { { [hotel |-> h, room |-> r, meal |-> m] :
                      m \in {x \in DictItems(Get(r, "mealPlans")) : ValidMeal(x)} } :
                  r \in DictItems(Get(h, "rooms")) } :
          h \in DictItems(destination_hotels) }
HotelErrorLine(info) == info.kind = "line" /\ info.text = "Hotel search error: exception"
C11_PerRecordRecovery ==
  (Done /\ result.kind = "report" /\ IsList(destination_hotels))
  => /\ ~HotelErrorLine(result.hotel)
     /\ \A rec \in ValidRecords :
          /\ result.hotel.kind = "table"
          /\ \E i \in 1..Len(result.hotel.rows) : result.hotel.rows[i] = RecordRow(rec)

\* C12: each price field (room, adult, child) of a rendered record follows a
\* fixed precedence: the price nested in the record's room detail, else the
\* top-level price of the same record, else the price of the companion bulk
\* hotel record matched by hotel id (else by exact name), and only then the
\* placeholder; a price of a higher source is never replaced by a lower one.
PriceFields == <<"roomPrice", "adultPrice", "childPrice">>
\* the bulk records matching the hotel: by hotel id when one matches, else by name
Companions(hotel) ==
  LET all == DictItems(fetch_all_hotels(env.bulk))
      byId == {b \in all : Truthy(Get(hotel, "hotelId"))
                            /\ Get(b, "hotelId") = Get(hotel, "hotelId")}
      byName == {b \in all : Truthy(Get(hotel, "hotelName"))
                              /\ Get(b, "hotelName") = Get(hotel, "hotelName")}
  IN IF byId # {} THEN byId ELSE byName
\* the prices the precedence allows for a field of a record
NormalizedPrices(rec, field) ==
  IF Truthy(Get(rec.meal, field)) THEN {Get(rec.meal, field)}
  ELSE IF Truthy(Get(rec.hotel, field)) THEN {Get(rec.hotel, field)}
  ELSE IF \E b \in Companions(rec.hotel) : Truthy(Get(b, field))
       THEN {Get(b, field) : b \in {c \in Companions(rec.hotel) : Truthy(Get(c, field))}}
  ELSE {None}
NormalizedRows(rec) ==
  { MealRow(Get(rec.hotel, "hotelName"), Get(rec.hotel, "review"), Get(rec.room, "roomType"),
            D(("roomPrice" :> p1) @@ ("adultPrice" :> p2) @@ ("childPrice" :> p3)
              @@ rec.meal.v)) :
      p1 \in NormalizedPrices(rec, "roomPrice"),
      p2 \in NormalizedPrices(rec, "adultPrice"),
      p3 \in NormalizedPrices(rec, "childPrice") }
C12_PricePrecedence ==
  (Done /\ result.kind = "report" /\ result.hotel.kind = "table")
  => \A rec \in ValidRecords :
       \E i \in 1..Len(result.hotel.rows) : result.hotel.rows[i] \in NormalizedRows(rec)

\* C13: in every row of the hotel table each of the three price cells (room,
\* adult, child) is a value prefixed by the currency symbol or the
\* price-not-available placeholder, never blank; a missing price raises
\* nothing: well-formed records never end in the error line.
\* the last three cells of a rendered row
PriceCells(row) ==
  LET parts == Split(row, "|")
      n == Len(parts)
  IN [k \in 1..3 |-> IF n >= 5 THEN Strip(parts[n - 4 + k]) ELSE <<>>]
PriceCellOk(cell) ==
  \/ cell = <<"Price not available">>
  \/ (Len(cell) >= 2 /\ cell[1] = RUPEE)
WellFormedHotels ==
  /\ IsList(destination_hotels)
  /\ \A i \in 1..Len(destination_hotels.v) :
       LET h == destination_hotels.v[i]
       IN /\ IsDict(h)
          /\ IsList(GetDef(h, "rooms", L(<<>>)))
          /\ \A j \in 1..Len(GetDef(h, "rooms", L(<<>>)).v) :
               LET r == GetDef(h, "rooms", L(<<>>)).v[j]
               IN /\ IsDict(r)
                  /\ IsList(GetDef(r, "mealPlans", L(<<>>)))
                  /\ \A k \in 1..Len(GetDef(r, "mealPlans", L(<<>>)).v) :
                       ValidMeal(GetDef(r, "mealPlans", L(<<>>)).v[k])
C13_PriceCellsNeverBlank ==
  (Done /\ result.kind = "report")
  => /\ result.hotel.kind = "table" =>
          \A i \in 1..Len(result.hotel.rows) :
            \A k \in 1..3 : PriceCellOk(PriceCells(result.hotel.rows[i])[k])
     /\ WellFormedHotels => ~HotelErrorLine(result.hotel)
C13_Witness ==
  /\ Done /\ result.kind = "report" /\ result.hotel.kind = "table"
  /\ \E i \in 1..Len(result.hotel.rows) :
       /\ PriceCells(result.hotel.rows[i])[1] = <<"Price not available">>
       /\ PriceCells(result.hotel.rows[i])[2][1] = RUPEE

\* C14: the hotel table is deduplicated: whatever the catalog holds, the
\* same hotel row or the same room and meal-plan entry more than once
\* included, no two rows of the hotel table are identical.
C14_NoDuplicateRows ==
  (Done /\ result.kind = "report" /\ result.hotel.kind = "table" /\ Called("catalog")
     /\ ~Called("embedded"))
  => \A i, j \in 1..Len(result.hotel.rows) :
       i # j => result.hotel.rows[i] # result.hotel.rows[j]

\* C15: the departure date sent to the flight search is the given date when
\* it parses as YYYY-MM-DD and the current date plus 14 days when the date is
\* absent or unparseable; the return date is that departure date plus 7
\* days; every flight request uses the origin MAA and the resolved
\* destination code.
\* the day number of a calendar date, counted from 0001-01-01
DaysBeforeMonth(y, m) ==
  <<0, 31, 59, 90, 120, 151, 181, 212, 243, 273, 304, 334>>[m]
    + (IF m > 2 /\ IsLeap(y) THEN 1 ELSE 0)
Ordinal(x) ==
  365 * (x.y - 1) + ((x.y - 1) \div 4) - ((x.y - 1) \div 100) + ((x.y - 1) \div 400)
    + DaysBeforeMonth(x.y, x.m) + x.d
IsIsoText(s) ==
  /\ Len(s) = 10 /\ s[5] = "-" /\ s[8] = "-"
  /\ \A i \in {1, 2, 3, 4, 6, 7, 9, 10} : IsDigit(s[i])
IsoDate(s) ==
  [y |-> NumOf(SubSeq(s, 1, 4)), m |-> NumOf(SubSeq(s, 6, 7)), d |-> NumOf(SubSeq(s, 9, 10))]
GivenParts == Split(date, "-")
GivenDateParses ==
  /\ Len(date) > 0 /\ Len(GivenParts) = 3
  /\ \A k \in 1..3 : AllDigits(GivenParts[k])
  /\ Len(GivenParts[1]) = 4 /\ Len(GivenParts[2]) <= 2 /\ Len(GivenParts[3]) <= 2
  /\ NumOf(GivenParts[1]) >= 1 /\ NumOf(GivenParts[2]) \in 1..12
  /\ NumOf(GivenParts[3]) \in 1..DaysIn(NumOf(GivenParts[1]), NumOf(GivenParts[2]))
GivenDate ==
  [y |-> NumOf(GivenParts[1]), m |-> NumOf(GivenParts[2]), d |-> NumOf(GivenParts[3])]
C15_FlightDates ==
  (pc # "idle")
  => /\ IsIsoText(dep_date_str) /\ IsIsoText(ret_date_str)
     /\ IF GivenDateParses THEN IsoDate(dep_date_str) = GivenDate
        ELSE Ordinal(IsoDate(dep_date_str)) = Ordinal(env.now) + 14
     /\ Ordinal(IsoDate(ret_date_str)) = Ordinal(IsoDate(dep_date_str)) + 7
     /\ Called("flight_offers") =>
          /\ flight_params.originLocationCode = <<"M","A","A">>
          /\ flight_params.destinationLocationCode = dest /\ dest # <<>>
          /\ flight_params.departureDate = dep_date_str
C15_Witness ==
  /\ Done /\ Called("flight_offers")
  /\ Len(date) > 0 /\ ~GivenDateParses
  /\ IsoDate(dep_date_str).y = env.now.y + 1

\* C16: extract_destination_id is shape-independent: for every id string v,
\* the one-element list [{destinationId: v}], the single mapping
\* {destinationId: v} and the plain string v give the same result: v when v
\* has at least 8 characters, absent when it has fewer.
Returned == fn = "extract_destination_id_from_package" /\ fn_ret # Pending
GivenDestination == Get(fn_arg, "destination")
OnlyId(x) == IsDict(x) /\ DOMAIN x.v = {"destinationId"} /\ IsStr(x.v["destinationId"])
\* the id v when the destination field has one of the three shapes
HasIdShape ==
  \/ IsStr(GivenDestination)
  \/ OnlyId(GivenDestination)
  \/ (IsList(GivenDestination) /\ Len(GivenDestination.v) = 1 /\ OnlyId(GivenDestination.v[1]))
ShapedId ==
  IF IsStr(GivenDestination) THEN GivenDestination.v
  ELSE IF IsDict(GivenDestination) THEN GivenDestination.v["destinationId"].v
  ELSE GivenDestination.v[1].v["destinationId"].v
C16_ShapeIndependent ==
  (Returned /\ HasIdShape)
  => fn_ret = (IF Len(ShapedId) >= 8 THEN S(ShapedId) ELSE None)

\* C17: for a destination field that is a list, the result is the id of the
\* first element, in list order, that is a mapping with a string
\* destinationId of at least 8 characters or a string of at least 8
\* characters; invalid elements before it are skipped, elements after it are
\* not used, and the result is absent when no element qualifies.
Qualifies(e) ==
  \/ (IsDict(e) /\ IsStr(Get(e, "destinationId")) /\ Len(Get(e, "destinationId").v) >= 8)
  \/ (IsStr(e) /\ Len(e.v) >= 8)
IdOfElement(e) == IF IsDict(e) THEN Get(e, "destinationId") ELSE e
C17_FirstQualifyingElement ==
  (Returned /\ IsList(GivenDestination))
  => LET q == {i \in 1..Len(GivenDestination.v) : Qualifies(GivenDestination.v[i])}
     IN fn_ret = (IF q = {} THEN None
                  ELSE IdOfElement(GivenDestination.v[CHOOSE i \in q : \A j \in q : i <= j]))

\* C18: the result is absent for a package whose destination field is an
\* empty sequence or a mapping without a destinationId field, whatever the
\* fields to, city_code and cityCode contain.
C18_AbsentWhateverOtherFields ==
  (Returned /\ (GivenDestination = L(<<>>)
                 \/ (IsDict(GivenDestination) /\ "destinationId" \notin DOMAIN GivenDestination.v)))
  => fn_ret = None

\* C19: city_to_iata is case- and whitespace-insensitive: every variant of a
\* city of the table that differs only in letter case and in leading or
\* trailing whitespace returns the code of the table entry, and every name
\* not in the table returns the empty string and no error.
CodeOf(city) ==
  CITY_TO_IATA[CHOOSE i \in 1..Len(CITY_TO_IATA) : CITY_TO_IATA[i].city = city].code
VariantOf(name) == {c \in Cities : Lower(c) = Lower(Strip(name))}
C19_CaseAndWhitespaceInsensitive ==
  (fn = "city_to_iata" /\ fn_ret # Pending)
  => /\ \A c \in VariantOf(fn_arg.v) : fn_ret = S(CodeOf(c))
     /\ VariantOf(fn_arg.v) = {} => fn_ret = S(<<>>)
C19_Witness ==
  /\ fn = "city_to_iata" /\ fn_ret = S(<<"C","O","K">>)
  /\ fn_arg.v \notin Cities /\ fn_arg.v[2] = "\n" /\ fn_arg.v[Len(fn_arg.v)] = " "
  /\ Strip(fn_arg.v) # Title(Strip(fn_arg.v))

\* C20: extract_city_from_package_name applies three tiers in order and
\* stops at the first that succeeds: (a) the first city in table order whose
\* name is a case-insensitive substring of the title; (b) only if (a) finds
\* none, the first city in table order that is a substring of the package's
\* destinationName; (c) only if (a) and (b) find none, the text following
\* the literal "in " in the title; otherwise the empty string. A result of
\* tier (a) or (b) is a key of the city table.
GivenTitle == fn_arg.package_name
GivenNames ==
  LET n == Get(fn_arg.package, "destinationName") IN IF IsStr(n) THEN n.v ELSE <<>>
CitiesIn(text) ==
  {i \in 1..Len(CITY_TO_IATA) : IsSubstr(Lower(CITY_TO_IATA[i].city), Lower(text))}
FirstOf(hits) == CITY_TO_IATA[CHOOSE i \in hits : \A j \in hits : i <= j].city
\* the longest run of letters and spaces at the head of a text
RECURSIVE WordsAtHead(_)
WordsAtHead(text) ==
  IF Len(text) = 0 \/ ~(IsLetter(Head(text)) \/ Head(text) = " ") THEN <<>>
  ELSE <<Head(text)>> \o WordsAtHead(Tail(text))
\* the words following the first "in " that has any
RECURSIVE TextAfterIn(_)
TextAfterIn(text) ==
  IF Len(text) < 4 THEN <<>>
  ELSE IF SubSeq(text, 1, 3) = <<"i", "n", " ">> /\ WordsAtHead(SubSeq(text, 4, Len(text))) # <<>>
  THEN Strip(WordsAtHead(SubSeq(text, 4, Len(text))))
  ELSE TextAfterIn(Tail(text))
TieredCity ==
  IF CitiesIn(GivenTitle) # {} THEN FirstOf(CitiesIn(GivenTitle))
  ELSE IF CitiesIn(GivenNames) # {} THEN FirstOf(CitiesIn(GivenNames))
  ELSE TextAfterIn(GivenTitle)
C20_ThreeTiersInOrder ==
  (fn = "extract_city_from_package_name" /\ fn_ret # Pending)
  => /\ ~fn_ret.raised
     /\ fn_ret.v = TieredCity
     /\ (CitiesIn(GivenTitle) # {} \/ CitiesIn(GivenNames) # {}) => fn_ret.v \in Cities

\* C21: for every catalog content and every query id, each hotel that
\* get_hotels_by_destination returns has a parsed location destinationId
\* equal to the query id, has at least one room, and each of its rooms has
\* at least one meal plan; every catalog row that parses, matches the id
\* and has at least one room with a meal plan is returned, in catalog order.
GivenRows == IF fn_arg.file.readable THEN fn_arg.file.rows ELSE <<>>
GivenId == fn_arg.destination_id
\* both columns evaluate to the structure the catalog is written in
RoomParses(room) ==
  /\ IsDict(room)
  /\ "mealPlan" \in DOMAIN room.v =>
       /\ IsList(room.v["mealPlan"])
       /\ \A k \in 1..Len(room.v["mealPlan"].v) : IsDict(room.v["mealPlan"].v[k])
RowParses(row) ==
  /\ IsDict(row.location)
  /\ IsList(row.hotelRoomDetails)
  /\ \A j \in 1..Len(row.hotelRoomDetails.v) : RoomParses(row.hotelRoomDetails.v[j])
RoomHasMeal(room) == "mealPlan" \in DOMAIN room.v /\ Len(room.v["mealPlan"].v) > 0
RowQualifies(row, id) ==
  /\ RowParses(row)
  /\ "destinationId" \in DOMAIN row.location.v
  /\ row.location.v["destinationId"] = id
  /\ \E j \in 1..Len(row.hotelRoomDetails.v) : RoomHasMeal(row.hotelRoomDetails.v[j])
QualifyingNames(id) ==
  LET picked == Filter(GivenRows, {GivenRows[i] : i \in {k \in 1..Len(GivenRows) :
                                                          RowQualifies(GivenRows[k], id)}})
  IN [i \in 1..Len(picked) |-> picked[i].hotelName]
ReturnedNames(hotels) == [i \in 1..Len(hotels) |-> hotels[i].v["hotelName"]]
GotHotels == fn = "get_hotels_by_destination" /\ fn_ret # Pending
C21_OnlyAndAllMatchingHotels ==
  GotHotels =>
    /\ ~fn_ret.raised
    /\ \A i \in 1..Len(fn_ret.v) :
         LET h == fn_ret.v[i].v
         IN /\ h["location"].v["destinationId"] = GivenId
            /\ Len(h["rooms"].v) > 0
            /\ \A j \in 1..Len(h["rooms"].v) : Len(h["rooms"].v[j].v["mealPlans"].v) > 0
    /\ ReturnedNames(fn_ret.v) = QualifyingNames(GivenId)
\* two hotels come back, the second of them from a row that lost a room
C21_Witness ==
  /\ GotHotels
  /\ Len(fn_ret.v) = 2
  /\ Len(GivenRows) = 2
  /\ Len(GivenRows[2].hotelRoomDetails.v) > Len(fn_ret.v[2].v["rooms"].v)

\* C22: in get_hotels_by_destination a catalog row whose location or
\* room-details structure fails to parse is skipped without raising, and
\* the hotels returned for the other rows are the same as if the malformed
\* row were not in the catalog.
RemoveAt(seq, i) == SubSeq(seq, 1, i - 1) \o SubSeq(seq, i + 1, Len(seq))
MalformedRows == {i \in 1..Len(GivenRows) : ~RowParses(GivenRows[i])}
C22_MalformedRowSkipped ==
  GotHotels =>
    /\ ~fn_ret.raised
    /\ \A i \in MalformedRows :
         /\ \A k \in 1..Len(fn_ret.v) : fn_ret.v[k].v["hotelName"] # GivenRows[i].hotelName
         /\ fn_ret = HotelMapper_get_hotels_by_destination(RemoveAt(GivenRows, i), GivenId)
\* a hotel is returned from a catalog that also holds a malformed row
C22_Witness ==
  /\ GotHotels
  /\ MalformedRows # {}
  /\ Len(fn_ret.v) > 0

\* C23: when the catalog failed to load, or the query id is empty or absent
\* from the catalog, get_hotels_by_destination returns an empty list and
\* get_hotel_summary_by_destination returns total_hotels = 0 with min, max
\* and average all 0 and empty package, room-type and hotel listings,
\* without raising.
IdInCatalog(id) ==
  \E i \in 1..Len(GivenRows) :
    /\ IsDict(GivenRows[i].location)
    /\ "destinationId" \in DOMAIN GivenRows[i].location.v
    /\ GivenRows[i].location.v["destinationId"] = id
NothingToFind == ~fn_arg.file.readable \/ GivenId = S(<<>>) \/ ~IdInCatalog(GivenId)
GotSummary == fn = "get_hotel_summary_by_destination" /\ fn_ret # Pending
IsZero(q) == q.num = 0
C23_DegradesToNoHotels ==
  NothingToFind =>
    /\ GotHotels => ~fn_ret.raised /\ fn_ret.v = <<>>
    /\ GotSummary =>
         /\ ~fn_ret.raised
         /\ fn_ret.v.total_hotels = 0
         /\ fn_ret.v.price_range.min = 0 /\ fn_ret.v.price_range.max = 0
         /\ IsZero(fn_ret.v.price_range.average)
         /\ fn_ret.v.available_packages = {} /\ fn_ret.v.available_room_types = {}
         /\ fn_ret.v.hotels = <<>>

\* C24: get_hotel_summary_by_destination computes min, max and average
\* over exactly the meal plans of the destination's hotels whose room price
\* is numeric (a numeric price of 0 included), excludes meal plans whose
\* room price is absent or non-numeric, and reports total_hotels equal to
\* the number of hotels get_hotels_by_destination returns, with
\* min <= average <= max.
DestinationHotels ==
  HotelMapper_get_hotels_by_destination(GivenRows, GivenId).v
NumericPrices ==
  LET meals == AllMeals(DestinationHotels)
      numeric == {k \in 1..Len(meals) :
                    /\ "roomPrice" \in DOMAIN meals[k].v
                    /\ meals[k].v["roomPrice"].t = "num"}
      picked == Filter(meals, {meals[k] : k \in numeric})
  IN [k \in 1..Len(picked) |-> picked[k].v["roomPrice"].v]
C24_SummaryOverNumericPrices ==
  (GotSummary /\ Len(DestinationHotels) > 0) =>
    LET range == fn_ret.v.price_range
        prices == NumericPrices
    IN /\ fn_ret.v.total_hotels = Len(DestinationHotels)
       /\ range.min * range.average.den <= range.average.num
       /\ range.average.num <= range.max * range.average.den
       /\ IF Len(prices) = 0
          THEN range.min = 0 /\ range.max = 0 /\ range.average.num = 0
          ELSE /\ \A k \in 1..Len(prices) : range.min <= prices[k] /\ prices[k] <= range.max
               /\ \E k \in 1..Len(prices) : range.min = prices[k]
               /\ \E k \in 1..Len(prices) : range.max = prices[k]
               /\ range.average.num * Len(prices) = Sum(prices) * range.average.den

\* C25: get_hotels_by_destination_and_package applies the provided filters
\* as a logical AND: a meal plan is in the result exactly when its hotel
\* matches the destination, its room's type equals room_type if given, its
\* plan code equals package_type if given and its season equals season_type
\* if given; no returned room has zero meal plans and no returned hotel has
\* zero rooms. A filter is given when it is neither None nor empty.
GotFiltered == fn = "get_hotels_by_destination_and_package" /\ fn_ret # Pending
Given(filter) == filter # None /\ filter # S(<<>>)
Passes(filter, value) == Given(filter) => value = filter
\* the meal plans of the catalog that pass, as (hotel, room type, plan) entries
EntriesOfRoom(name, room) ==
  LET plans == IF "mealPlan" \in DOMAIN room.v THEN room.v["mealPlan"].v ELSE <<>>
      passing == {k \in 1..Len(plans) :
                    /\ Passes(fn_arg.filters.room_type, Get(room, "hotelRoomType"))
                    /\ Passes(fn_arg.filters.package_type, Get(plans[k], "mealPlan"))
                    /\ Passes(fn_arg.filters.season_type, Get(plans[k], "seasonType"))}
      picked == Filter(plans, {plans[k] : k \in passing})
  IN [k \in 1..Len(picked) |->
        <<name, Get(room, "hotelRoomType"), Get(picked[k], "mealPlan"),
          Get(picked[k], "seasonType"), Get(picked[k], "roomPrice")>>]
EntriesOfRow(row) ==
  Flatten([j \in 1..Len(row.hotelRoomDetails.v) |->
             EntriesOfRoom(row.hotelName, row.hotelRoomDetails.v[j])])
PassingEntries ==
  LET matching == Filter(GivenRows, {GivenRows[i] : i \in {k \in 1..Len(GivenRows) :
                                                            RowQualifies(GivenRows[k], GivenId)}})
  IN Flatten([i \in 1..Len(matching) |-> EntriesOfRow(matching[i])])
\* the meal plans of a returned hotel list, as the same entries
EntriesOfHotels(hotels) ==
  Flatten([i \in 1..Len(hotels) |->
    Flatten([j \in 1..Len(hotels[i].v["rooms"].v) |->
      LET room == hotels[i].v["rooms"].v[j].v
      IN [k \in 1..Len(room["mealPlans"].v) |->
            <<hotels[i].v["hotelName"], room["roomType"],
              room["mealPlans"].v[k].v["mealPlan"], room["mealPlans"].v[k].v["seasonType"],
              room["mealPlans"].v[k].v["roomPrice"]>>]])])
C25_FiltersAreConjunction ==
  GotFiltered =>
    /\ ~fn_ret.raised
    /\ EntriesOfHotels(fn_ret.v) = PassingEntries
    /\ \A i \in 1..Len(fn_ret.v) :
         /\ Len(fn_ret.v[i].v["rooms"].v) > 0
         /\ \A j \in 1..Len(fn_ret.v[i].v["rooms"].v) :
              Len(fn_ret.v[i].v["rooms"].v[j].v["mealPlans"].v) > 0
\* all three filters are given and keep some meal plans but not all
C25_Witness ==
  /\ GotFiltered
  /\ Given(fn_arg.filters.package_type) /\ Given(fn_arg.filters.room_type)
  /\ Given(fn_arg.filters.season_type)
  /\ Len(fn_ret.v) > 0
  /\ Len(EntriesOfHotels(fn_ret.v)) < Len(EntriesOfHotels(DestinationHotels))

\* C30: get_hotels_by_destination_and_package only narrows: for every
\* destination id and every combination of filters, each returned hotel,
\* room and meal plan also appears, in the same relative order, in
\* get_hotels_by_destination for that id; with no filter given (or every
\* filter an empty string) the result has the same hotels, rooms and meal
\* plans as get_hotels_by_destination.
RECURSIVE IsSubsequence(_, _)
IsSubsequence(part, whole) ==
  IF Len(part) = 0 THEN TRUE
  ELSE IF Len(whole) = 0 THEN FALSE
  ELSE IF Head(part) = Head(whole) THEN IsSubsequence(Tail(part), Tail(whole))
  ELSE IsSubsequence(part, Tail(whole))
RoomsOfHotels(hotels) ==
  Flatten([i \in 1..Len(hotels) |->
    [j \in 1..Len(hotels[i].v["rooms"].v) |->
       <<hotels[i].v["hotelName"], hotels[i].v["rooms"].v[j].v["roomType"]>>]])
NoFilterGiven ==
  /\ ~Given(fn_arg.filters.package_type)
  /\ ~Given(fn_arg.filters.room_type)
  /\ ~Given(fn_arg.filters.season_type)
C30_FilterOnlyNarrows ==
  GotFiltered =>
    /\ IsSubsequence(ReturnedNames(fn_ret.v), ReturnedNames(DestinationHotels))
    /\ IsSubsequence(RoomsOfHotels(fn_ret.v), RoomsOfHotels(DestinationHotels))
    /\ IsSubsequence(EntriesOfHotels(fn_ret.v), EntriesOfHotels(DestinationHotels))
    /\ NoFilterGiven => fn_ret.v = DestinationHotels
\* empty-string filters return every hotel of the destination
C30_Witness ==
  /\ GotFiltered
  /\ fn_arg.filters.package_type = S(<<>>) /\ fn_arg.filters.room_type = S(<<>>)
  /\ Len(fn_ret.v) = 2
  /\ fn_ret.v = DestinationHotels

\* C26: under every interleaving of concurrent get_tripxplo_token calls the
\* last successful writer wins: once some call has stored a token in the
\* process-wide cache, no other call, in particular one whose login request
\* fails or returns no accessToken, resets the cache to empty.
C26_StoredTokenNeverReset ==
  [][token_cache # NoToken => token_cache' # NoToken]_vars

\* C27: in any sequential series of get_tripxplo_token calls the token
\* cache is filled lazily and never invalidated: a call issues a login
\* request only when the cache is empty, a failed login leaves the cache
\* empty and raises so that the next call retries, and after the first
\* successful login every later call returns the same token without any
\* login request.
C27_LazyAndNeverInvalidated ==
  \A i \in 1..Len(log) :
    /\ log[i].login <=> log[i].entry = NoToken
    /\ log[i].raised <=> log[i].ret = NoToken
    /\ log[i].raised => log[i].login /\ log[i].cache = NoToken
    /\ (log[i].raised /\ i < Len(log)) => log[i + 1].login
    /\ ~log[i].raised =>
         /\ log[i].cache = log[i].ret
         /\ \A j \in (i + 1)..Len(log) :
              ~log[j].login /\ ~log[j].raised /\ log[j].ret = log[i].ret
\* two failed logins, a successful one, then a call answered from the cache
C27_Witness ==
  /\ Len(log) = 4
  /\ log[1].raised /\ log[2].raised
  /\ log[3].login /\ log[3].ret = OtherToken
  /\ ~log[4].login /\ log[4].ret = OtherToken

\* C29: get_hotel_id_to_name_mapping caches only a successfully fetched
\* mapping: after a call during which the bulk hotel fetch failed, a later
\* call re-attempts the fetch and, when the fetch then succeeds, returns the
\* full id-to-name mapping; after a successful fetch no later call fetches
\* again.
IdField(module) == IF module = "tripxplo_api" THEN "hotelId" ELSE "_id"
FullMapping(module, answer) ==
  { <<h.v[IdField(module)], h.v["name"]>> :
      h \in {x \in Range(answer.result.v) :
               IdField(module) \in DOMAIN x.v /\ "name" \in DOMAIN x.v} }
FetchFailed(call) == call.fetched /\ ~call.answer.ok
FetchSucceeded(call) == call.fetched /\ call.answer.ok
C29_OnlySuccessfulFetchCached ==
  \A i \in 1..Len(log) :
    /\ (FetchFailed(log[i]) /\ i < Len(log)) =>
         /\ log[i + 1].fetched
         /\ log[i + 1].answer.ok =>
              log[i + 1].ret = Mapping(FullMapping(log[i + 1].module, log[i + 1].answer))
    /\ FetchSucceeded(log[i]) =>
         /\ log[i].ret = Mapping(FullMapping(log[i].module, log[i].answer))
         /\ \A j \in (i + 1)..Len(log) : ~log[j].fetched /\ log[j].ret = log[i].ret

\* C28: in book_travel the destination used to resolve the flight
\* destination code and the destination id used for hotel matching come
\* from the same entry of the package's destination list: for every
\* destination list, including one whose first element has no valid
\* destinationId while a later element has one, the hotels shown belong to
\* the destination the flight code was resolved from.
DestinationList == DestinationDataOf(package)
\* line 30: the entry the flight destination code is resolved from
FlightEntry == DestinationList.v[1]
CatalogHotelsShown ==
  {h \in Range(destination_hotels.v) : IsDict(h) /\ "location" \in DOMAIN h.v}
MatchedFromList ==
  /\ Done /\ result.kind = "report"
  /\ IsList(DestinationList) /\ Len(DestinationList.v) > 0
  /\ Called("catalog")
C28_SameDestinationEntry ==
  MatchedFromList =>
    /\ ExtractedId = Get(FlightEntry, "destinationId")
    /\ \A h \in CatalogHotelsShown :
         Get(h.v["location"], "destinationId") = Get(FlightEntry, "destinationId")
====
